---- MODULE Spec2Model ----
(***************************************************************************)
(* Model of the order-intent resolution and transaction-argument           *)
(* compilation engine of dexlyn_bot_sdk.py (class AdvancedTradingEngine)   *)
(* together with the configuration it reads (class ConfigManager).         *)
(*                                                                         *)
(* Python dictionaries are functions whose DOMAIN is the set of keys that  *)
(* are present.  A decimal amount (size_usd, price, ...) is written as the *)
(* integer numerator of the decimal literal it is read from, a fraction    *)
(* with denominator 10^AmountDigits; the conversion to units works on the  *)
(* binary64 float of that literal.  Every modelled method returns a call   *)
(* record [fn, args, ok, ret, calls]: its return value (or the exception   *)
(* it raised) and the calls it made, in order.                             *)
(***************************************************************************)
EXTENDS Integers, Sequences, FiniteSets, TLC

VARIABLES
    configs,         \* ConfigManager.configs
    network_config,  \* AdvancedTradingEngine.network_config
    strategy,        \* the strategy the order intents are read from
    order_config,    \* the order intent handed to build_order_arguments
    result,          \* the outcome of the last build_order_arguments call
    run_args,        \* the arguments of run: each <<>> (None) or <<value>>
    pc,              \* where the task of run stands
    cycles,          \* run's local cycles
    cycle_count,     \* run's local cycle_count
    order_index,     \* execute_strategy's i, 0 outside the order loop
    success_count,   \* execute_strategy's success_count
    clients,         \* SupraSDKClientManager.clients (the wallet names cached)
    accounts,        \* SupraSDKClientManager.accounts (the wallet names cached)
    bot_configs,     \* AdvancedDexlynTradingBot.configs
    tests_to_run,    \* run_test_suite: the test files still to run
    results,         \* TestSuiteRunner.results
    log,             \* what the run did, in order
    pending,         \* the exception unwinding through run's finally, or ""
    outcome          \* how run ended: "returned" or the exception it raised

\* the state of the compilation engine and the state of the cycle driver
engine_vars == <<configs, network_config, strategy, order_config, result>>
suite_vars == <<bot_configs, tests_to_run, results>>
driver_vars ==
    <<run_args, suite_vars, pc, cycles, cycle_count, order_index, success_count,
      clients, accounts, log, pending, outcome>>
vars == <<engine_vars, driver_vars>>

(***************************************************************************)
(* Bounds of the model.                                                    *)
(***************************************************************************)
\* fractional decimal digits carried by a decimal amount
AmountDigits == 1
\* largest decimals exponent of a network configuration
MaxDecimals == 2
\* largest number of cycles asked of run, and the number of cycles after
\* which an endless run (cycles = -1) is no longer followed
MaxCycles == 2

(***************************************************************************)
(* Python helpers.                                                         *)
(***************************************************************************)
EmptyDict == [k \in {} |-> 0]

\* dict.get(key, default)
Get(d, key, default) == IF key \in DOMAIN d THEN d[key] ELSE default

\* The one element of a set.  Only({e(x) : x \in {v}}) is
\* LET x == v IN e(x), written so that v stands in the formula once and is
\* computed once however often e uses x.
Only(S) == CHOOSE x \in S : TRUE

RECURSIVE Pow10(_)
Pow10(n) == IF n <= 0 THEN 1 ELSE 10 * Pow10(n - 1)

RECURSIVE Pow2(_)
Pow2(n) == IF n <= 0 THEN 1 ELSE 2 * Pow2(n - 1)

RECURSIVE BitLenInt(_)
BitLenInt(n) == IF n = 0 THEN 0 ELSE 1 + BitLenInt(n \div 2)

(***************************************************************************)
(* Python numbers.  A float is an IEEE-754 binary64 value                  *)
(* (-1)^sign * m * 2^e whose significand m is zero or has exactly          *)
(* MantissaBits bits (the amounts of the model are far from the subnormal  *)
(* and the overflow range).  A significand, and every exact intermediate   *)
(* product or quotient, is a natural number held as a sequence of limbs in *)
(* base Limb, least significant first, without high zero limbs.  A Python  *)
(* int is an integer while it is below 2^30 in magnitude and the sequence  *)
(* of its base-10000 groups, most significant first, when it is wider.     *)
(***************************************************************************)
MantissaBits == 53
Limb == 32768
LimbBits == BitLenInt(Limb) - 1

RECURSIVE Big(_)
Big(n) == IF n = 0 THEN <<>> ELSE <<n % Limb>> \o Big(n \div Limb)

RECURSIVE BigToInt(_)
BigToInt(b) == IF b = <<>> THEN 0 ELSE Head(b) + Limb * BigToInt(Tail(b))

RECURSIVE Norm(_)
Norm(b) == IF b # <<>> /\ b[Len(b)] = 0 THEN Norm(SubSeq(b, 1, Len(b) - 1)) ELSE b

BitLen(b) == IF b = <<>> THEN 0 ELSE LimbBits * (Len(b) - 1) + BitLenInt(b[Len(b)])

\* b * c + carry, for 0 < c < Limb
RECURSIVE BigMul(_, _, _)
BigMul(b, c, carry) ==
    IF b = <<>> THEN Big(carry)
    ELSE Only({<<v % Limb>> \o BigMul(Tail(b), c, v \div Limb) :
                  v \in {Head(b) * c + carry}})

\* quotient and remainder of b by c, for 0 < c <= Limb
RECURSIVE BigDivMod(_, _)
BigDivMod(b, c) ==
    IF b = <<>> THEN [q |-> <<>>, r |-> 0]
    ELSE Only({Only({[q |-> <<v \div c>> \o high.q, r |-> v % c] :
                        v \in {high.r * Limb + Head(b)}}) :
                  high \in {BigDivMod(Tail(b), c)}})

BigInc(b) == BigMul(b, 1, 1)

BigOdd(b) == b # <<>> /\ b[1] % 2 = 1

RECURSIVE Zeros(_)
Zeros(n) == IF n <= 0 THEN <<>> ELSE <<0>> \o Zeros(n - 1)

\* b * 2^s
BigShl(b, s) ==
    IF b = <<>> THEN <<>>
    ELSE Zeros(s \div LimbBits) \o BigMul(b, Pow2(s % LimbBits), 0)

\* b divided by 2^s, truncated; sticky tells whether a dropped bit was set
BigShr(b, s) ==
    Only({[q |-> Norm(d.q),
           sticky |-> d.r # 0 \/ \E i \in 1..Len(b) : i <= limbs /\ b[i] # 0] :
             limbs \in {s \div LimbBits},
             d \in {BigDivMod(SubSeq(b, (s \div LimbBits) + 1, Len(b)),
                              Pow2(s % LimbBits))}})

\* b divided by 2^s, rounded to nearest, ties to even
BigShrRound(b, s) ==
    IF s <= 0 THEN b
    ELSE Only({Only({Only({IF h.r = 1 /\ (t.sticky \/ BigOdd(q))
                              THEN BigInc(q) ELSE q :
                                q \in {Norm(h.q)}}) :
                        h \in {BigDivMod(t.q, 2)}}) :
                  t \in {BigShr(b, s - 1)}})

\* b divided by c, rounded to nearest, ties to even
BigDivRound(b, c) ==
    Only({Only({IF 2 * d.r > c \/ (2 * d.r = c /\ BigOdd(q))
                THEN BigInc(q) ELSE q :
                  q \in {Norm(d.q)}}) :
            d \in {BigDivMod(b, c)}})

RECURSIVE BigMulPow10(_, _)
BigMulPow10(b, d) == IF d <= 0 THEN b ELSE BigMulPow10(BigMul(b, 10, 0), d - 1)

\* the base-10000 groups of b, most significant first
RECURSIVE Groups(_)
Groups(b) ==
    IF b = <<>> THEN <<>>
    ELSE Only({Groups(Norm(d.q)) \o <<d.r>> : d \in {BigDivMod(b, 10000)}})

\* the Python int of sign and magnitude
PyInt(sign, mag) ==
    IF BitLen(mag) <= 30
    THEN (IF sign = 1 THEN -BigToInt(mag) ELSE BigToInt(mag))
    ELSE Only({IF sign = 1 THEN <<-Head(g)>> \o Tail(g) ELSE g :
                  g \in {Groups(mag)}})

\* the float of a significand that a rounding may have carried to one bit
\* more than MantissaBits
Float(sign, m, e) ==
    IF BitLen(m) > MantissaBits
    THEN [sign |-> sign, m |-> BigShr(m, 1).q, e |-> e + 1]
    ELSE [sign |-> sign, m |-> m, e |-> e]

\* the least t with mag * 2^t >= den, for 0 < mag < den
RECURSIVE LeadShift(_, _)
LeadShift(mag, den) == IF mag >= den THEN 0 ELSE 1 + LeadShift(2 * mag, den)

\* The float that json.load makes of the decimal literal num / 10^AmountDigits:
\* the binary64 value nearest to it.
float(num) ==
    IF num = 0 THEN [sign |-> 0, m |-> <<>>, e |-> 0]
    ELSE Only({Only({Only({Float(IF num < 0 THEN 1 ELSE 0, m, -s) :
                              m \in {BigDivRound(BigShl(Big(mag), s), den)}}) :
                        s \in {IF mag >= den
                               THEN MantissaBits - BitLenInt(mag \div den)
                               ELSE MantissaBits - 1 + LeadShift(mag, den)}}) :
                  mag \in {IF num < 0 THEN -num ELSE num},
                  den \in {Pow10(AmountDigits)}})

\* x * (10 ** decimals) for a float x: the int 10 ** decimals is a float
\* exactly (decimals <= 22) and the product is the exact product rounded to
\* nearest, ties to even.
float_mul_pow10(x, decimals) ==
    IF x.m = <<>> THEN x
    ELSE Only({Only({Only({Float(x.sign, m, x.e + r) :
                              m \in {BigShrRound(p, r)}}) :
                        r \in {BitLen(p) - MantissaBits}}) :
                  p \in {BigMulPow10(x.m, decimals)}})

\* int(x) of a float x: truncation toward zero
int(x) ==
    Only({PyInt(x.sign, mag) :
            mag \in {IF x.e >= 0 THEN BigShl(x.m, x.e) ELSE BigShr(x.m, -x.e).q}})

\* the record of one call: what was called with what, whether it returned
\* (ok) or raised, the value returned or the exception, and the calls made
Returned(fn, args, ret, calls) ==
    [fn |-> fn, args |-> args, ok |-> TRUE, ret |-> ret, calls |-> calls]

Raised(fn, args, kind, what, calls) ==
    [fn |-> fn, args |-> args, ok |-> FALSE,
     ret |-> [kind |-> kind, what |-> what], calls |-> calls]

\* AccountAddress.from_str: the parsed address of a hex string
AccountAddress_from_str(s) == [account_address |-> s]

\* TransactionArgument(value, encoder)
TransactionArgument(value, encoder) == [value |-> value, encoder |-> encoder]

(***************************************************************************)
(* ConfigManager lookups.  A missing key raises KeyError.                  *)
(***************************************************************************)
get_wallet(wallet_name) ==
    IF wallet_name \in DOMAIN configs["wallets"]
    THEN Returned("get_wallet", <<wallet_name>>, configs["wallets"][wallet_name], <<>>)
    ELSE Raised("get_wallet", <<wallet_name>>, "KeyError", wallet_name, <<>>)

get_pair(pair_name) ==
    IF pair_name \in DOMAIN configs["pairs"]
    THEN Returned("get_pair", <<pair_name>>, configs["pairs"][pair_name], <<>>)
    ELSE Raised("get_pair", <<pair_name>>, "KeyError", pair_name, <<>>)

\* get_strategy(strategy_name), as the second definition of the method in the
\* class has it (it replaces the first): None names the default strategy and
\* a missing name raises KeyError.  None is <<>> and a name n is <<n>>.
get_strategy(strategy_name) ==
    LET name == IF strategy_name = <<>> THEN configs["main"]["default_strategy"]
                ELSE strategy_name[1]
    IN  IF name \in DOMAIN configs["strategies"]
        THEN Returned("get_strategy", <<name>>, configs["strategies"][name], <<>>)
        ELSE Raised("get_strategy", <<name>>, "KeyError", name, <<>>)

\* mutant: the network named by the strategy is used
get_network_config_of_strategy == configs["network"][strategy["network"]]

\* get_network_config() with network = None: the network named by the main
\* configuration
get_network_config == configs["network"][configs["main"]["network"]]

(***************************************************************************)
(* Unit conversion.                                                        *)
(***************************************************************************)
\* int(amount * 10 ** decimals).  The amount is held as the decimal literal
\* of the configuration file; what is multiplied is the float read from it.
usd_to_units(usd_amount, decimal_type) ==
    LET decimals == network_config[decimal_type \o "_decimals"]
    IN  Returned("usd_to_units", <<usd_amount, decimal_type, decimals>>,
                 Only({int(product) :
                         product \in {Only({float_mul_pow10(x, decimals) :
                                               x \in {float(usd_amount)}})}}),
                 <<>>)

\* mutant: the price is scaled by the size decimals
price_to_units_size_decimals(price) ==
    LET decimals == network_config["size_decimals"]
    IN  Returned("price_to_units", <<price, "price", decimals>>,
                 Only({int(product) :
                         product \in {Only({float_mul_pow10(x, decimals) :
                                               x \in {float(price)}})}}),
                 <<>>)

price_to_units(price) ==
    LET decimals == network_config["price_decimals"]
    IN  Returned("price_to_units", <<price, "price", decimals>>,
                 Only({int(product) :
                         product \in {Only({float_mul_pow10(x, decimals) :
                                               x \in {float(price)}})}}),
                 <<>>)

(***************************************************************************)
(* Precedence chains: explicit units, else the USD/price field, else the   *)
(* pair default.                                                           *)
(***************************************************************************)
\* mutant: the USD field is preferred over the explicit units
get_size_units_usd_first(oc, pair_config) ==
    IF "size_usd" \in DOMAIN oc
    THEN LET c == usd_to_units(oc["size_usd"], "size")
         IN  Returned("get_size_units", <<>>, c.ret, <<c>>)
    ELSE IF "size_units" \in DOMAIN oc
    THEN Returned("get_size_units", <<>>, oc["size_units"], <<>>)
    ELSE LET c == usd_to_units(pair_config["default_size_usd"], "size")
         IN  Returned("get_size_units", <<>>, c.ret, <<c>>)

get_size_units(oc, pair_config) ==
    IF "size_units" \in DOMAIN oc
    THEN Returned("get_size_units", <<>>, oc["size_units"], <<>>)
    ELSE IF "size_usd" \in DOMAIN oc
    THEN LET c == usd_to_units(oc["size_usd"], "size")
         IN  Returned("get_size_units", <<>>, c.ret, <<c>>)
    ELSE LET c == usd_to_units(pair_config["default_size_usd"], "size")
         IN  Returned("get_size_units", <<>>, c.ret, <<c>>)

get_collateral_units(oc, pair_config) ==
    IF "collateral_units" \in DOMAIN oc
    THEN Returned("get_collateral_units", <<>>, oc["collateral_units"], <<>>)
    ELSE IF "collateral_usd" \in DOMAIN oc
    THEN LET c == usd_to_units(oc["collateral_usd"], "collateral")
         IN  Returned("get_collateral_units", <<>>, c.ret, <<c>>)
    ELSE LET c == usd_to_units(pair_config["default_collateral_usd"], "collateral")
         IN  Returned("get_collateral_units", <<>>, c.ret, <<c>>)

get_price_units(oc, pair_config) ==
    IF "price_units" \in DOMAIN oc
    THEN Returned("get_price_units", <<>>, oc["price_units"], <<>>)
    ELSE IF "price" \in DOMAIN oc
    THEN LET c == price_to_units(oc["price"])
         IN  Returned("get_price_units", <<>>, c.ret, <<c>>)
    ELSE LET c == price_to_units(pair_config["default_price"])
         IN  Returned("get_price_units", <<>>, c.ret, <<c>>)

\* mutant: a stop_loss that is present is converted, zero included
get_stop_loss_units_convert_zero(oc) ==
    IF "stop_loss_units" \in DOMAIN oc
    THEN Returned("get_stop_loss_units", <<>>, oc["stop_loss_units"], <<>>)
    ELSE IF "stop_loss" \in DOMAIN oc
    THEN LET c == price_to_units(oc["stop_loss"])
         IN  Returned("get_stop_loss_units", <<>>, c.ret, <<c>>)
    ELSE Returned("get_stop_loss_units", <<>>, 0, <<>>)

get_stop_loss_units(oc) ==
    IF "stop_loss_units" \in DOMAIN oc
    THEN Returned("get_stop_loss_units", <<>>, oc["stop_loss_units"], <<>>)
    ELSE IF "stop_loss" \in DOMAIN oc /\ oc["stop_loss"] > 0
    THEN LET c == price_to_units(oc["stop_loss"])
         IN  Returned("get_stop_loss_units", <<>>, c.ret, <<c>>)
    ELSE Returned("get_stop_loss_units", <<>>, 0, <<>>)

get_take_profit_units(oc) ==
    IF "take_profit_units" \in DOMAIN oc
    THEN Returned("get_take_profit_units", <<>>, oc["take_profit_units"], <<>>)
    ELSE IF "take_profit" \in DOMAIN oc /\ oc["take_profit"] > 0
    THEN LET c == price_to_units(oc["take_profit"])
         IN  Returned("get_take_profit_units", <<>>, c.ret, <<c>>)
    ELSE Returned("get_take_profit_units", <<>>, 0, <<>>)

(***************************************************************************)
(* Action resolver and execution guard.                                    *)
(***************************************************************************)
\* the dictionary literal built by parse_action_flags
action_map(oc) ==
    [market_open_long   |-> <<TRUE, TRUE, TRUE>>,
     market_open_short  |-> <<FALSE, TRUE, TRUE>>,
     limit_open_long    |-> <<TRUE, TRUE, FALSE>>,
     limit_open_short   |-> <<FALSE, TRUE, FALSE>>,
     market_close_long  |-> <<TRUE, FALSE, TRUE>>,
     market_close_short |-> <<FALSE, FALSE, TRUE>>,
     limit_close_long   |-> <<TRUE, FALSE, FALSE>>,
     limit_close_short  |-> <<FALSE, FALSE, FALSE>>,
     add_to_position    |-> <<Get(oc, "is_long", TRUE), TRUE, Get(oc, "is_market", TRUE)>>,
     add_collateral     |-> <<Get(oc, "is_long", TRUE), TRUE, TRUE>>,
     partial_close      |-> <<Get(oc, "is_long", TRUE), FALSE, Get(oc, "is_market", TRUE)>>,
     full_close         |-> <<Get(oc, "is_long", TRUE), FALSE, Get(oc, "is_market", TRUE)>>,
     custom             |-> <<Get(oc, "is_long", TRUE), Get(oc, "is_increase", TRUE),
                              Get(oc, "is_market", TRUE)>>]

\* mutant: is_market falls back to True instead of the action's default
parse_action_flags_market_default(action, oc) ==
    IF action \notin DOMAIN action_map(oc)
    THEN Raised("parse_action_flags", <<action>>, "ValueError", action, <<>>)
    ELSE LET default == action_map(oc)[action]
         IN  Returned("parse_action_flags", <<action>>,
                      <<Get(oc, "is_long", default[1]),
                        Get(oc, "is_increase", default[2]),
                        Get(oc, "is_market", TRUE)>>, <<>>)

\* mutant: the table entry is returned without applying the overrides
parse_action_flags_no_override(action, oc) ==
    IF action \notin DOMAIN action_map(oc)
    THEN Raised("parse_action_flags", <<action>>, "ValueError", action, <<>>)
    ELSE Returned("parse_action_flags", <<action>>, action_map(oc)[action], <<>>)

\* mutant: an action outside the table is resolved like "custom"
parse_action_flags_fallback(action, oc) ==
    LET default == IF action \in DOMAIN action_map(oc)
                   THEN action_map(oc)[action] ELSE action_map(oc)["custom"]
    IN  Returned("parse_action_flags", <<action>>,
                 <<Get(oc, "is_long", default[1]),
                   Get(oc, "is_increase", default[2]),
                   Get(oc, "is_market", default[3])>>, <<>>)

parse_action_flags(action, oc) ==
    IF action \notin DOMAIN action_map(oc)
    THEN Raised("parse_action_flags", <<action>>, "ValueError", action, <<>>)
    ELSE LET default == action_map(oc)[action]
         IN  Returned("parse_action_flags", <<action>>,
                      <<Get(oc, "is_long", default[1]),
                        Get(oc, "is_increase", default[2]),
                        Get(oc, "is_market", default[3])>>, <<>>)

\* mutant: the last branch (decrease, short) returns True
calculate_execution_guard_last_true(is_long, is_increase, is_market) ==
    Returned("calculate_execution_guard", <<is_long, is_increase, is_market>>,
             IF is_increase /\ is_long THEN FALSE
             ELSE IF is_increase /\ ~is_long THEN TRUE
             ELSE IF ~is_increase /\ is_long THEN TRUE
             ELSE TRUE,
             <<>>)

calculate_execution_guard(is_long, is_increase, is_market) ==
    Returned("calculate_execution_guard", <<is_long, is_increase, is_market>>,
             IF is_increase /\ is_long THEN FALSE
             ELSE IF is_increase /\ ~is_long THEN TRUE
             ELSE IF ~is_increase /\ is_long THEN TRUE
             ELSE FALSE,
             <<>>)

\* mutant: auto-calculation is consulted before the explicit field
resolve_execution_guard_auto_first(oc, is_long, is_increase, is_market) ==
    LET auto_calculate == configs["main"]["orders"]["auto_calculate_execution_guard"]
    IN  IF auto_calculate
        THEN LET c == calculate_execution_guard(is_long, is_increase, is_market)
             IN  Returned("resolve_execution_guard", <<>>, c.ret, <<c>>)
        ELSE IF "can_execute_above_price" \in DOMAIN oc
        THEN Returned("resolve_execution_guard", <<>>, oc["can_execute_above_price"], <<>>)
        ELSE Returned("resolve_execution_guard", <<>>, TRUE, <<>>)

\* build_standard_order_arguments, "Calculate execution guard (can be
\* overridden)": the explicit field, else the calculator when
\* auto_calculate_execution_guard is set, else True
resolve_execution_guard(oc, is_long, is_increase, is_market) ==
    LET auto_calculate == configs["main"]["orders"]["auto_calculate_execution_guard"]
    IN  IF "can_execute_above_price" \in DOMAIN oc
        THEN Returned("resolve_execution_guard", <<>>, oc["can_execute_above_price"], <<>>)
        ELSE IF auto_calculate
        THEN LET c == calculate_execution_guard(is_long, is_increase, is_market)
             IN  Returned("resolve_execution_guard", <<>>, c.ret, <<c>>)
        ELSE Returned("resolve_execution_guard", <<>>, TRUE, <<>>)

(***************************************************************************)
(* Order argument compiler.                                                *)
(***************************************************************************)
required_fields ==
    <<"size_units", "collateral_units", "price_units",
      "is_long", "is_increase", "is_market", "can_execute_above_price">>

\* mutant: no validation; an absent key takes a default
build_custom_order_arguments_lenient(oc) ==
    LET fn == "build_custom_order_arguments"
        custom_params == oc["custom_parameters"]
        wallet == get_wallet(oc["wallet"])
    IN  IF ~wallet.ok
        THEN Raised(fn, <<>>, wallet.ret.kind, wallet.ret.what, <<wallet>>)
        ELSE Returned(fn, <<>>,
               <<TransactionArgument(AccountAddress_from_str(wallet.ret["address"]), "struct"),
                 TransactionArgument(Get(custom_params, "size_units", 0), "u64"),
                 TransactionArgument(Get(custom_params, "collateral_units", 0), "u64"),
                 TransactionArgument(Get(custom_params, "price_units", 0), "u64"),
                 TransactionArgument(Get(custom_params, "is_long", TRUE), "bool"),
                 TransactionArgument(Get(custom_params, "is_increase", TRUE), "bool"),
                 TransactionArgument(Get(custom_params, "is_market", TRUE), "bool"),
                 TransactionArgument(Get(custom_params, "stop_loss_units", 0), "u64"),
                 TransactionArgument(Get(custom_params, "take_profit_units", 0), "u64"),
                 TransactionArgument(Get(custom_params, "can_execute_above_price", TRUE), "bool"),
                 TransactionArgument(AccountAddress_from_str("0x0"), "struct")>>,
               <<wallet>>)

\* mutant: stop loss and take profit change places in the argument list
build_custom_order_arguments_swapped(oc) ==
    LET fn == "build_custom_order_arguments"
        custom_params == oc["custom_parameters"]
        wallet == get_wallet(oc["wallet"])
        missing == {i \in DOMAIN required_fields :
                        required_fields[i] \notin DOMAIN custom_params}
        first == CHOOSE i \in missing : \A j \in missing : i <= j
    IN  IF ~wallet.ok
        THEN Raised(fn, <<>>, wallet.ret.kind, wallet.ret.what, <<wallet>>)
        ELSE IF missing # {}
        THEN Raised(fn, <<>>, "ValueError", required_fields[first], <<wallet>>)
        ELSE Returned(fn, <<>>,
               <<TransactionArgument(AccountAddress_from_str(wallet.ret["address"]), "struct"),
                 TransactionArgument(custom_params["size_units"], "u64"),
                 TransactionArgument(custom_params["collateral_units"], "u64"),
                 TransactionArgument(custom_params["price_units"], "u64"),
                 TransactionArgument(custom_params["is_long"], "bool"),
                 TransactionArgument(custom_params["is_increase"], "bool"),
                 TransactionArgument(custom_params["is_market"], "bool"),
                 TransactionArgument(Get(custom_params, "take_profit_units", 0), "u64"),
                 TransactionArgument(Get(custom_params, "stop_loss_units", 0), "u64"),
                 TransactionArgument(custom_params["can_execute_above_price"], "bool"),
                 TransactionArgument(AccountAddress_from_str("0x0"), "struct")>>,
               <<wallet>>)

build_custom_order_arguments(oc) ==
    LET fn == "build_custom_order_arguments"
        custom_params == oc["custom_parameters"]
        wallet == get_wallet(oc["wallet"])
        missing == {i \in DOMAIN required_fields :
                        required_fields[i] \notin DOMAIN custom_params}
        first == CHOOSE i \in missing : \A j \in missing : i <= j
    IN  IF ~wallet.ok
        THEN Raised(fn, <<>>, wallet.ret.kind, wallet.ret.what, <<wallet>>)
        ELSE IF missing # {}
        THEN Raised(fn, <<>>, "ValueError", required_fields[first], <<wallet>>)
        ELSE Returned(fn, <<>>,
               <<TransactionArgument(AccountAddress_from_str(wallet.ret["address"]), "struct"),
                 TransactionArgument(custom_params["size_units"], "u64"),
                 TransactionArgument(custom_params["collateral_units"], "u64"),
                 TransactionArgument(custom_params["price_units"], "u64"),
                 TransactionArgument(custom_params["is_long"], "bool"),
                 TransactionArgument(custom_params["is_increase"], "bool"),
                 TransactionArgument(custom_params["is_market"], "bool"),
                 TransactionArgument(Get(custom_params, "stop_loss_units", 0), "u64"),
                 TransactionArgument(Get(custom_params, "take_profit_units", 0), "u64"),
                 TransactionArgument(custom_params["can_execute_above_price"], "bool"),
                 TransactionArgument(AccountAddress_from_str("0x0"), "struct")>>,
               <<wallet>>)

build_standard_order_arguments(oc) ==
    LET fn == "build_standard_order_arguments"
        pair == get_pair(oc["pair"])
        wallet == get_wallet(oc["wallet"])
        size == get_size_units(oc, pair.ret)
        collateral == get_collateral_units(oc, pair.ret)
        price == get_price_units(oc, pair.ret)
        stop_loss == get_stop_loss_units(oc)
        take_profit == get_take_profit_units(oc)
        flags == parse_action_flags(oc["action"], oc)
        guard == resolve_execution_guard(oc, flags.ret[1], flags.ret[2], flags.ret[3])
        units == <<size, collateral, price, stop_loss, take_profit>>
    IN  IF ~pair.ok
        THEN Raised(fn, <<>>, pair.ret.kind, pair.ret.what, <<pair>>)
        ELSE IF ~wallet.ok
        THEN Raised(fn, <<>>, wallet.ret.kind, wallet.ret.what, <<pair, wallet>>)
        ELSE IF ~flags.ok
        THEN Raised(fn, <<>>, flags.ret.kind, flags.ret.what,
                    <<pair, wallet>> \o units \o <<flags>>)
        ELSE Returned(fn, <<>>,
               <<TransactionArgument(AccountAddress_from_str(wallet.ret["address"]), "struct"),
                 TransactionArgument(size.ret, "u64"),
                 TransactionArgument(collateral.ret, "u64"),
                 TransactionArgument(price.ret, "u64"),
                 TransactionArgument(flags.ret[1], "bool"),
                 TransactionArgument(flags.ret[2], "bool"),
                 TransactionArgument(flags.ret[3], "bool"),
                 TransactionArgument(stop_loss.ret, "u64"),
                 TransactionArgument(take_profit.ret, "u64"),
                 TransactionArgument(guard.ret, "bool"),
                 TransactionArgument(AccountAddress_from_str("0x0"), "struct")>>,
               <<pair, wallet>> \o units \o <<flags, guard>>)

\* mutant: the custom path is taken only for the action "custom"
build_order_arguments_by_action(oc) ==
    IF "custom_parameters" \in DOMAIN oc /\ oc["action"] = "custom"
    THEN LET c == build_custom_order_arguments(oc)
         IN  [c EXCEPT !.fn = "build_order_arguments", !.calls = <<c>>]
    ELSE LET c == build_standard_order_arguments(oc)
         IN  [c EXCEPT !.fn = "build_order_arguments", !.calls = <<c>>]

build_order_arguments(oc) ==
    IF "custom_parameters" \in DOMAIN oc
    THEN LET c == build_custom_order_arguments(oc)
         IN  [c EXCEPT !.fn = "build_order_arguments", !.calls = <<c>>]
    ELSE LET c == build_standard_order_arguments(oc)
         IN  [c EXCEPT !.fn = "build_order_arguments", !.calls = <<c>>]

\* build_type_arguments: the pair type and the collateral type
build_type_arguments(oc) ==
    LET pair == get_pair(oc["pair"])
    IN  IF ~pair.ok
        THEN Raised("build_type_arguments", <<>>, pair.ret.kind, pair.ret.what, <<pair>>)
        ELSE Returned("build_type_arguments", <<>>,
               <<<<network_config["contract_address"], "pair_types",
                   pair.ret["type_arg"]>>,
                 <<network_config["collateral_token"]>>>>, <<pair>>)

\* create_order_payload: the entry function place_order_v3 with the compiled
\* arguments and the type arguments
create_order_payload(oc) ==
    Only({
        IF ~function_args.ok
        THEN Raised("create_order_payload", <<>>, function_args.ret.kind,
                    function_args.ret.what, <<function_args>>)
        ELSE IF ~type_args.ok
        THEN Raised("create_order_payload", <<>>, type_args.ret.kind,
                    type_args.ret.what, <<function_args, type_args>>)
        ELSE Returned("create_order_payload", <<>>,
               [module |-> <<network_config["contract_address"], "managed_trading">>,
                function |-> "place_order_v3",
                type_args |-> type_args.ret,
                function_args |-> function_args.ret],
               <<function_args, type_args>>) :
            function_args \in {build_order_arguments(oc)},
            type_args \in {build_type_arguments(oc)}})

(***************************************************************************)
(* SupraSDKClientManager.                                                  *)
(***************************************************************************)
\* What get_client_and_account does for the balance of a new account: the
\* balance is there, it is 0 and the faucet is asked, or the SDK raises
Fundings == {"funded", "faucet", "raises"}

\* lines 521-535: on testnet the balance of the new account is asked for and,
\* when it is 0, the faucet; an exception of either is caught and logged
fund_account(wallet_name, funding) ==
    IF configs["main"]["network"] # "testnet" THEN <<>>
    ELSE IF funding = "raises"
    THEN <<Raised("account_coin_balance", <<wallet_name>>, "Exception", "", <<>>)>>
    ELSE IF funding = "funded"
    THEN <<Returned("account_coin_balance", <<wallet_name>>, [balance |-> 1], <<>>)>>
    ELSE <<Returned("account_coin_balance", <<wallet_name>>, [balance |-> 0], <<>>),
           Returned("faucet", <<wallet_name>>, [tx_hash |-> "hash"], <<>>)>>

\* get_client_and_account without the look into the cache
get_client_and_account_uncached(wallet_name, sdk_ok, funding) ==
    LET fn == "get_client_and_account"
        wallet == get_wallet(wallet_name)
    IN  IF ~wallet.ok
        THEN Raised(fn, <<wallet_name>>, wallet.ret.kind, wallet.ret.what, <<wallet>>)
        ELSE IF Get(wallet.ret, "private_key", "") \in {"", "your_private_key_hex_here"}
        THEN Raised(fn, <<wallet_name>>, "ValueError", wallet_name, <<wallet>>)
        ELSE IF ~sdk_ok
        THEN Raised(fn, <<wallet_name>>, "Exception", wallet_name, <<wallet>>)
        ELSE Returned(fn, <<wallet_name>>, wallet_name,
                      <<wallet,
                        Returned("SupraClient", <<>>, [client |-> wallet_name], <<>>),
                        Returned("Account.load_key", <<>>,
                                 [account |-> wallet_name], <<>>)>>
                      \o fund_account(wallet_name, funding))

\* get_client_and_account(wallet_name): the cached client and account, or new
\* ones.  sdk_ok tells whether the SDK could make the client and load the
\* key; funding is what the balance check does, which cannot fail the call.
\* The caller caches the wallet in clients and accounts when the call made
\* new ones and returned.
get_client_and_account(wallet_name, sdk_ok, funding) ==
    LET fn == "get_client_and_account"
        wallet == get_wallet(wallet_name)
    IN  IF wallet_name \in clients
        THEN Returned(fn, <<wallet_name>>, wallet_name, <<>>)
        ELSE IF ~wallet.ok
        THEN Raised(fn, <<wallet_name>>, wallet.ret.kind, wallet.ret.what, <<wallet>>)
        ELSE IF Get(wallet.ret, "private_key", "") \in {"", "your_private_key_hex_here"}
        THEN Raised(fn, <<wallet_name>>, "ValueError", wallet_name, <<wallet>>)
        ELSE IF ~sdk_ok
        THEN Raised(fn, <<wallet_name>>, "Exception", wallet_name, <<wallet>>)
        ELSE Returned(fn, <<wallet_name>>, wallet_name,
                      <<wallet,
                        Returned("SupraClient", <<>>, [client |-> wallet_name], <<>>),
                        Returned("Account.load_key", <<>>,
                                 [account |-> wallet_name], <<>>)>>
                      \o fund_account(wallet_name, funding))

(***************************************************************************)
(* Configurations: the contents of config.json, network.json, wallets.json *)
(* and pairs.json after load_all_configs.  Amounts are numerators over     *)
(* 10^AmountDigits (3000 is 300.0 when AmountDigits = 1).                  *)
(***************************************************************************)
NetworkNames == {"testnet", "mainnet"}

\* network.json in the shape of DEFAULT_NETWORK (size and collateral share
\* their decimals, price has more), and one whose six decimals all differ
\* within a network and across the two
NetworkFiles ==
    { [testnet |-> [size_decimals |-> MaxDecimals - 2,
                    collateral_decimals |-> MaxDecimals - 2,
                    price_decimals |-> MaxDecimals],
       mainnet |-> [size_decimals |-> MaxDecimals - 1,
                    collateral_decimals |-> MaxDecimals - 1,
                    price_decimals |-> MaxDecimals]],
      [testnet |-> [size_decimals |-> MaxDecimals - 2,
                    collateral_decimals |-> MaxDecimals - 1,
                    price_decimals |-> MaxDecimals],
       mainnet |-> [size_decimals |-> MaxDecimals,
                    collateral_decimals |-> MaxDecimals - 2,
                    price_decimals |-> MaxDecimals - 1]] }

\* two wallets, each with an address AccountAddress.from_str can parse
WalletsFile ==
    [trader_1 |-> [address |-> "0xa1", private_key |-> "k1"],
     trader_2 |-> [address |-> "0xb2", private_key |-> "k2"]]

PairsFile ==
    [ETH_USD |-> [type_arg |-> "ETH_USD", default_size_usd |-> 3000,
                  default_collateral_usd |-> 30, default_price |-> 35000],
     BTC_USD |-> [type_arg |-> "BTC_USD", default_size_usd |-> 3000,
                  default_collateral_usd |-> 30, default_price |-> 500000]]

Configs ==
    { [main |-> [network |-> n,
                 orders |-> [auto_calculate_execution_guard |-> a]],
       network |-> f, wallets |-> WalletsFile, pairs |-> PairsFile] :
      n \in NetworkNames, a \in BOOLEAN, f \in NetworkFiles }

\* a whole amount as a decimal literal
Dec(whole) == whole * Pow10(AmountDigits)

\* the decimals of DEFAULT_NETWORK
DEFAULT_NETWORK ==
    [testnet |-> [contract_address |-> "0xae38", collateral_token |-> "TUSDC",
                  size_decimals |-> 6, collateral_decimals |-> 6,
                  price_decimals |-> 10],
     mainnet |-> [contract_address |-> "0x215f", collateral_token |-> "CASH",
                  size_decimals |-> 8, collateral_decimals |-> 8,
                  price_decimals |-> 10]]

\* the pair defaults of DEFAULT_PAIRS
DEFAULT_PAIRS ==
    [ETH_USD |-> [type_arg |-> "ETH_USD", default_size_usd |-> Dec(300),
                  default_collateral_usd |-> Dec(3), default_price |-> Dec(3500)],
     BTC_USD |-> [type_arg |-> "BTC_USD", default_size_usd |-> Dec(300),
                  default_collateral_usd |-> Dec(3), default_price |-> Dec(50000)]]

\* the default configuration files, with wallets that have usable addresses
DefaultConfigs ==
    { [main |-> [network |-> n,
                 orders |-> [auto_calculate_execution_guard |-> a]],
       network |-> DEFAULT_NETWORK, wallets |-> WalletsFile,
       pairs |-> DEFAULT_PAIRS] :
      n \in NetworkNames, a \in BOOLEAN }

(***************************************************************************)
(* Order intents.  The intents compiled are those of five families, each   *)
(* varying one group of fields over all its combinations.                  *)
(***************************************************************************)
RecognizedActions ==
    {"market_open_long", "market_open_short", "limit_open_long", "limit_open_short",
     "market_close_long", "market_close_short", "limit_close_long", "limit_close_short",
     "add_to_position", "add_collateral", "partial_close", "full_close", "custom"}

UnknownActions == {"unknown_action"}

PairNames == {"ETH_USD", "BTC_USD", "DOGE_USD"}

WalletNames == {"trader_1", "trader_2", "trader_9"}

\* the key absent, or present with one of the values
Opt(key, values) == {EmptyDict} \cup {key :> v : v \in values}

\* the two fragments put together
Both(A, B) == {a @@ b : a \in A, b \in B}

Required(action, pair, wallet) ==
    [name |-> "order", action |-> action, pair |-> pair, wallet |-> wallet]

FlagFields ==
    Both(Opt("is_long", BOOLEAN),
         Both(Opt("is_increase", BOOLEAN), Opt("is_market", BOOLEAN)))

GuardField == Opt("can_execute_above_price", BOOLEAN)

SizeFields == Both(Opt("size_units", {100}), Opt("size_usd", {-15, 23, 500}))

CollateralFields ==
    Both(Opt("collateral_units", {40}), Opt("collateral_usd", {-4, 32}))

PriceFields == Both(Opt("price_units", {7000}), Opt("price", {0, 35507}))

StopLossFields ==
    Both(Opt("stop_loss_units", {0, 61}), Opt("stop_loss", {-20, 0, 31500}))

TakeProfitFields ==
    Both(Opt("take_profit_units", {0, 83}), Opt("take_profit", {0, 38509}))

\* family 1: every action with every combination of the boolean overrides
FlagIntents ==
    {Required(a, "ETH_USD", "trader_1") @@ f @@ g :
        a \in RecognizedActions \cup UnknownActions, f \in FlagFields, g \in GuardField}

\* family 2: size, collateral and price in every representation
AmountIntents ==
    {Required("market_open_long", p, "trader_1") @@ s @@ c @@ pr :
        p \in PairNames, s \in SizeFields, c \in CollateralFields, pr \in PriceFields}

\* family 3: stop loss and take profit in every representation
RiskIntents ==
    {Required("limit_open_short", "BTC_USD", "trader_2") @@ sl @@ tp :
        sl \in StopLossFields, tp \in TakeProfitFields}

\* family 4: every pair and wallet name, configured or not
LookupIntents ==
    {Required(a, p, w) @@ s :
        a \in {"market_close_long", "unknown_action"}, p \in PairNames,
        w \in WalletNames, s \in Opt("size_units", {100})}

\* family 5: custom_parameters with every subset of the required keys, and
\* with the optional keys when all required ones are there, inside intents
\* that differ in everything the custom path is said to ignore
OptionalFields == {"stop_loss_units", "take_profit_units"}

CustomValues ==
    { [size_units |-> 500, collateral_units |-> 10, price_units |-> 3550,
       is_long |-> TRUE, is_increase |-> TRUE, is_market |-> FALSE,
       stop_loss_units |-> 3195, take_profit_units |-> 3905,
       can_execute_above_price |-> FALSE],
      [size_units |-> 77, collateral_units |-> 8, price_units |-> 99,
       is_long |-> FALSE, is_increase |-> FALSE, is_market |-> TRUE,
       stop_loss_units |-> 0, take_profit_units |-> 5,
       can_execute_above_price |-> TRUE] }

Range(seq) == {seq[i] : i \in DOMAIN seq}

CustomKeySets ==
    {K \in SUBSET (Range(required_fields) \cup OptionalFields) :
        K \cap OptionalFields # {} => Range(required_fields) \subseteq K}

CustomParameters == {[k \in K |-> v[k]] : K \in CustomKeySets, v \in CustomValues}

CustomEnvelopes ==
    { Required("custom", "ETH_USD", "trader_1"),
      Required("custom", "ETH_USD", "trader_2"),
      Required("custom", "ETH_USD", "trader_9"),
      Required("custom", "DOGE_USD", "trader_1"),
      Required("unknown_action", "ETH_USD", "trader_1"),
      Required("market_open_short", "BTC_USD", "trader_1")
        @@ [size_units |-> 100, size_usd |-> 500, collateral_usd |-> 32,
            price |-> 35507, stop_loss |-> 31500, take_profit_units |-> 83,
            is_long |-> TRUE, is_market |-> FALSE,
            can_execute_above_price |-> FALSE] }

CustomIntents ==
    {e @@ ("custom_parameters" :> cp) : e \in CustomEnvelopes, cp \in CustomParameters}

Intents ==
    FlagIntents \cup AmountIntents \cup RiskIntents \cup LookupIntents \cup CustomIntents

\* the intents that have an amount converted
ConvertingIntents == AmountIntents \cup RiskIntents

\* a strategy: its own "network" field, its cycles and its orders
Strategy(network, strategy_cycles, orders) ==
    [name |-> "strategy", description |-> "a strategy", network |-> network,
     cycles |-> strategy_cycles, orders |-> orders]

\* strategies of one order; the "network" field names either network where
\* the order has amounts to convert
CompileStrategies ==
    {Strategy(n, -1, <<oc>>) : n \in NetworkNames, oc \in ConvertingIntents}
    \cup {Strategy("testnet", -1, <<oc>>) : oc \in Intents \ ConvertingIntents}

\* an order in the shape of those of DEFAULT_STRATEGIES["basic_cycle"]
DefaultOrder(action, wallet, stop_loss, take_profit) ==
    Required(action, "ETH_USD", wallet)
    @@ [size_usd |-> Dec(300), collateral_usd |-> Dec(3), price |-> Dec(3500),
        stop_loss |-> Dec(stop_loss), take_profit |-> Dec(take_profit)]

\* the order of DEFAULT_STRATEGIES["fully_custom"]; its price, stop loss and
\* take profit units are 3550, 3195 and 3905 times 10^12
FullyCustomOrder ==
    Required("custom", "ETH_USD", "trader_1")
    @@ [custom_parameters |->
          [size_units |-> 500000000, collateral_units |-> 10000000,
           price_units |-> <<3550, 0, 0, 0>>,
           is_long |-> TRUE, is_increase |-> TRUE, is_market |-> FALSE,
           stop_loss_units |-> <<3195, 0, 0, 0>>,
           take_profit_units |-> <<3905, 0, 0, 0>>,
           can_execute_above_price |-> FALSE]]

\* the orders of the default strategies, the first one under every action
\* and either wallet
DefaultIntents ==
    {DefaultOrder(a, w, 3150, 3850) :
        a \in RecognizedActions \cup UnknownActions, w \in {"trader_1", "trader_2"}}
    \cup {DefaultOrder("market_open_short", "trader_2", 3850, 3150), FullyCustomOrder}

DefaultStrategies == {Strategy("testnet", -1, <<oc>>) : oc \in DefaultIntents}

(***************************************************************************)
(* What run is given: a configuration whose default strategy is one of     *)
(* RunStrategies, and the arguments strategy_name and cycles.              *)
(***************************************************************************)
\* the dictionary d without key
Without(d, key) == [k \in DOMAIN d \ {key} |-> d[k]]

GoodOrder(wallet) == DefaultOrder("market_open_long", wallet, 3150, 3850)

\* wallets.json with a third wallet whose private key was never filled in
RunWallets ==
    WalletsFile
    @@ [trader_3 |-> [address |-> "0xc3",
                      private_key |-> "your_private_key_hex_here"]]

\* orders that fail on their configuration: a pair and a wallet that are not
\* configured, an action outside the table, custom_parameters without the
\* required keys, a wallet without a private key
BadPairOrder == [pair |-> "DOGE_USD"] @@ GoodOrder("trader_1")
BadWalletOrder == GoodOrder("trader_9")
BadActionOrder == DefaultOrder("unknown_action", "trader_1", 3150, 3850)
BadCustomOrder ==
    Required("custom", "ETH_USD", "trader_1") @@ [custom_parameters |-> EmptyDict]
NoKeyOrder == GoodOrder("trader_3")

\* the order lists of the strategies run: three orders that can succeed
\* (the second has a wait of 0, the third waits before it starts), failing
\* orders around one that can succeed, a single order, and none
OrderLists ==
    { <<GoodOrder("trader_1"), GoodOrder("trader_2") @@ [wait_before |-> 0],
        GoodOrder("trader_1") @@ [wait_before |-> 2]>>,
      <<BadPairOrder, GoodOrder("trader_1"), BadActionOrder>>,
      <<BadWalletOrder, BadCustomOrder, NoKeyOrder, GoodOrder("trader_2")>>,
      <<GoodOrder("trader_2")>>,
      <<>> }

\* the configuration whose strategies.json holds st as "basic_cycle", the
\* default strategy, with the timing of DEFAULT_CONFIG
RunConfig(st) ==
    [main |-> [network |-> "testnet",
               default_strategy |-> "basic_cycle",
               orders |-> [auto_calculate_execution_guard |-> TRUE],
               timing |-> [sleep_between_orders |-> 6,
                           sleep_between_cycles |-> 10]],
     network |-> DEFAULT_NETWORK, wallets |-> RunWallets,
     pairs |-> DEFAULT_PAIRS,
     strategies |-> [basic_cycle |-> st]]

\* the arguments of run; None is <<>>
RunArgs(strategy_name, cycles_arg) ==
    [strategy_name |-> strategy_name, cycles |-> cycles_arg]

\* The runs followed, <<strategy, arguments>>, in three families:
\* every order list under every cycles argument; no cycles argument and a
\* strategy whose "cycles" is -1, 1 or absent, named or by default; and a
\* strategy without description, one without orders, and an unknown name.
RunCases ==
    {<<Strategy("testnet", 1, ol), RunArgs(<<>>, <<n>>)>> :
        ol \in OrderLists, n \in -1..MaxCycles}
    \cup {<<st, RunArgs(nm, <<>>)>> :
            st \in {Strategy("testnet", -1, <<GoodOrder("trader_2")>>),
                    Strategy("testnet", 1, <<GoodOrder("trader_2")>>),
                    Without(Strategy("testnet", 1, <<GoodOrder("trader_2")>>),
                            "cycles")},
            nm \in {<<>>, <<"basic_cycle">>}}
    \cup {<<st, RunArgs(nm, <<1>>)>> :
            st \in {Without(Strategy("testnet", 1, <<GoodOrder("trader_2")>>),
                            "description"),
                    Without(Strategy("testnet", 1, <<>>), "orders")},
            nm \in {<<>>, <<"missing">>}}

\* before the first call there is no outcome
NoResult == Returned("", <<>>, <<>>, <<>>)

\* run has not been called
NoRun ==
    /\ run_args = [strategy_name |-> <<>>, cycles |-> <<>>]
    /\ pc = "idle" /\ cycles = 0 /\ cycle_count = 0
    /\ order_index = 0 /\ success_count = 0
    /\ clients = {} /\ accounts = {}
    /\ log = <<>> /\ pending = "" /\ outcome = ""
    /\ bot_configs = configs /\ tests_to_run = <<>> /\ results = EmptyDict

(***************************************************************************)
(* The state machine.                                                      *)
(***************************************************************************)
\* ConfigManager.load_all_configs, AdvancedTradingEngine.__init__, and an
\* order intent read from a strategy
Init ==
    /\ configs \in Configs
    /\ strategy \in CompileStrategies
    /\ network_config = get_network_config
    /\ order_config = strategy["orders"][1]
    /\ result = NoResult
    /\ NoRun

\* build_order_arguments(order_config) on the custom path
BuildCustom ==
    /\ "custom_parameters" \in DOMAIN order_config
    /\ result' = build_order_arguments(order_config)
    /\ UNCHANGED <<configs, network_config, strategy, order_config>>
    /\ UNCHANGED driver_vars

\* build_order_arguments(order_config) on the standard path
BuildStandard ==
    /\ "custom_parameters" \notin DOMAIN order_config
    /\ result' = build_order_arguments(order_config)
    /\ UNCHANGED <<configs, network_config, strategy, order_config>>
    /\ UNCHANGED driver_vars

Next == BuildCustom \/ BuildStandard

Spec == Init /\ [][Next]_vars

\* the same engine on the default configuration files and strategies
InitDefaults ==
    /\ configs \in DefaultConfigs
    /\ strategy \in DefaultStrategies
    /\ network_config = get_network_config
    /\ order_config = strategy["orders"][1]
    /\ result = NoResult
    /\ NoRun

SpecDefaults == InitDefaults /\ [][Next]_vars

(***************************************************************************)
(* The cycle driver: AdvancedDexlynTradingBot.run, with                    *)
(* AdvancedTradeExecutor.execute_strategy and execute_order inlined.  The  *)
(* task of run is one sequential coroutine; pc names the await it is       *)
(* suspended at (or the synchronous code that leads to it):                *)
(*   "run"          run was called and has not started                     *)
(*   "loop"         the test of the while loop                             *)
(*   "order"        execute_order is about to start for order order_index  *)
(*   "wait_before"  asyncio.sleep(wait_before)                             *)
(*   "client"       get_client_and_account, then create_order_payload      *)
(*   "sign"         client.create_signed_transaction                       *)
(*   "submit"       client.submit_transaction                              *)
(*   "order_delay"  asyncio.sleep(sleep_between_orders)                    *)
(*   "cycle_delay"  asyncio.sleep(sleep_between_cycles)                    *)
(*   "close"        sdk_manager.close_all in the finally clause            *)
(*   "done"         run has returned or raised                             *)
(* Each step appends what it did to log.                                   *)
(***************************************************************************)
InitRun ==
    /\ \E rc \in RunCases : configs = RunConfig(rc[1]) /\ run_args = rc[2]
    /\ network_config = get_network_config
    /\ strategy = EmptyDict
    /\ order_config = EmptyDict
    /\ result = NoResult
    /\ pc = "run" /\ cycles = 0 /\ cycle_count = 0
    /\ order_index = 0 /\ success_count = 0
    /\ clients = {} /\ accounts = {}
    /\ log = <<>> /\ pending = "" /\ outcome = ""
    /\ bot_configs = configs /\ tests_to_run = <<>> /\ results = EmptyDict

timing == configs["main"]["timing"]

\* run, lines 1027-1031: the strategy is looked up before the try; an
\* unknown name raises out of run, past the try and its finally
Run ==
    /\ pc = "run"
    /\ LET s == get_strategy(run_args.strategy_name)
       IN  IF s.ok
           THEN /\ strategy' = s.ret
                /\ cycles' = IF run_args.cycles = <<>> THEN Get(s.ret, "cycles", -1)
                             ELSE run_args.cycles[1]
                /\ pc' = "loop"
                /\ UNCHANGED outcome
           ELSE /\ pc' = "done"
                /\ outcome' = s.ret.kind
                /\ UNCHANGED <<strategy, cycles>>
    /\ UNCHANGED <<configs, network_config, order_config, result, run_args,
                   suite_vars,
                   cycle_count, order_index, success_count, clients, accounts, log, pending>>

\* AfterStrategy with the delay between cycles after the last cycle as well
AfterStrategySleepsAlways(count, events) ==
    /\ order_index' = 0
    /\ pc' = "cycle_delay"
    /\ log' = log \o events
                 \o <<<<"sleep", "cycles", timing["sleep_between_cycles"]>>>>

\* execute_strategy has returned.  To the test runner, when it was the one
\* that called it (run_all_tests.py line 95): the result is recorded next.
\* To run, in cycle count (lines 1046-1049): the delay between cycles if
\* another cycle follows, else the loop ends and the finally clause is
\* entered.
AfterStrategy(count, events) ==
    /\ order_index' = 0
    /\ IF tests_to_run # <<>>
       THEN /\ pc' = "record"
            /\ log' = log \o events
       ELSE IF cycles = -1 \/ count < cycles
       THEN /\ pc' = "cycle_delay"
            /\ log' = log \o events
                         \o <<<<"sleep", "cycles", timing["sleep_between_cycles"]>>>>
       ELSE /\ pc' = "close"
            /\ log' = log \o events

\* AfterOrder with the delay between orders after the last order as well
AfterOrderDelaysLast(success) ==
    LET orders == Get(strategy, "orders", <<>>)
        successes == IF success THEN success_count + 1 ELSE success_count
        ended == <<<<"result", cycle_count, order_index>>,
                   <<"sleep", "orders", timing["sleep_between_orders"]>>>>
    IN  /\ success_count' = successes
        /\ IF order_index < Len(orders)
           THEN /\ pc' = "order_delay"
                /\ log' = log \o ended
                /\ UNCHANGED order_index
           ELSE AfterStrategy(cycle_count,
                              ended \o <<<<"strategy", cycle_count,
                                           successes = Len(orders)>>>>)

\* AfterOrder with the next order begun at once, without the delay
AfterOrderNoDelay(success) ==
    LET orders == Get(strategy, "orders", <<>>)
        successes == IF success THEN success_count + 1 ELSE success_count
        ended == <<<<"result", cycle_count, order_index>>>>
    IN  /\ success_count' = successes
        /\ IF order_index < Len(orders)
           THEN /\ pc' = "order"
                /\ log' = log \o ended
                /\ order_index' = order_index + 1
           ELSE AfterStrategy(cycle_count,
                              ended \o <<<<"strategy", cycle_count,
                                           successes = Len(orders)>>>>)

\* AfterOrder with the strategy and the cycle loop given up at the first
\* order that fails
AfterOrderAbortsOnFailure(success) ==
    LET orders == Get(strategy, "orders", <<>>)
        successes == IF success THEN success_count + 1 ELSE success_count
        ended == <<<<"result", cycle_count, order_index>>>>
    IN  /\ success_count' = successes
        /\ IF ~success
           THEN /\ pc' = "close"
                /\ log' = log \o ended
                /\ UNCHANGED order_index
           ELSE IF order_index < Len(orders)
           THEN /\ pc' = "order_delay"
                /\ log' = log \o ended
                             \o <<<<"sleep", "orders", timing["sleep_between_orders"]>>>>
                /\ UNCHANGED order_index
           ELSE AfterStrategy(cycle_count,
                              ended \o <<<<"strategy", cycle_count,
                                           successes = Len(orders)>>>>)

\* AfterOrder with a failed order tried once more before the strategy goes on
AfterOrderRetries(success) ==
    LET orders == Get(strategy, "orders", <<>>)
        successes == IF success THEN success_count + 1 ELSE success_count
        ended == <<<<"result", cycle_count, order_index>>>>
        tried == \E k \in 1..Len(log) : log[k] = ended[1]
    IN  /\ success_count' = successes
        /\ IF ~success /\ ~tried
           THEN /\ pc' = "order"
                /\ log' = log \o ended
                /\ UNCHANGED order_index
           ELSE IF order_index < Len(orders)
           THEN /\ pc' = "order_delay"
                /\ log' = log \o ended
                             \o <<<<"sleep", "orders", timing["sleep_between_orders"]>>>>
                /\ UNCHANGED order_index
           ELSE AfterStrategy(cycle_count,
                              ended \o <<<<"strategy", cycle_count,
                                           successes = Len(orders)>>>>)

\* execute_strategy after execute_order returned success (lines 841-851):
\* the count, then the delay between orders unless the order was the last.
\* The log keeps that the order returned; what it returned is in result and
\* in the count.
AfterOrder(success) ==
    LET orders == Get(strategy, "orders", <<>>)
        successes == IF success THEN success_count + 1 ELSE success_count
        ended == <<<<"result", cycle_count, order_index>>>>
    IN  /\ success_count' = successes
        /\ IF order_index < Len(orders)
           THEN /\ pc' = "order_delay"
                /\ log' = log \o ended
                             \o <<<<"sleep", "orders", timing["sleep_between_orders"]>>>>
                /\ UNCHANGED order_index
           ELSE AfterStrategy(cycle_count,
                              ended \o <<<<"strategy", cycle_count,
                                           successes = Len(orders)>>>>)

\* the while test (line 1041) and, when it holds, the start of the cycle and
\* of execute_strategy (lines 1042-1044, 830-836).  A strategy without name
\* or description raises KeyError in execute_strategy, which run catches as
\* an unexpected error.  An endless run is followed for MaxCycles cycles.
Loop ==
    /\ pc = "loop"
    /\ IF cycles = -1 \/ cycle_count < cycles
       THEN /\ cycle_count < MaxCycles
            /\ cycle_count' = cycle_count + 1
            /\ success_count' = 0
            /\ IF {"name", "description"} \subseteq DOMAIN strategy
               THEN IF Len(Get(strategy, "orders", <<>>)) > 0
                    THEN /\ order_index' = 1
                         /\ pc' = "order"
                         /\ log' = log \o <<<<"cycle", cycle_count + 1>>>>
                    ELSE AfterStrategy(cycle_count + 1,
                                       <<<<"cycle", cycle_count + 1>>,
                                         <<"strategy", cycle_count + 1, TRUE>>>>)
               ELSE /\ pc' = "close"
                    /\ log' = log \o <<<<"cycle", cycle_count + 1>>,
                                        <<"error", "KeyError">>>>
                    /\ UNCHANGED order_index
       ELSE /\ pc' = "close"
            /\ UNCHANGED <<cycle_count, success_count, order_index, log>>
    /\ UNCHANGED <<engine_vars, run_args,
                   suite_vars, cycles, clients, accounts, pending, outcome>>

\* BeginOrder with the wait before the order applied in the first cycle only
BeginOrderWaitsFirstCycle ==
    /\ pc = "order"
    /\ LET order == strategy["orders"][order_index]
           wait_before == Get(order, "wait_before", 0)
           started == <<<<"order", cycle_count, order_index>>>>
       IN  /\ order_config' = order
           /\ IF wait_before > 0 /\ cycle_count = 1
              THEN /\ pc' = "wait_before"
                   /\ log' = log \o started
                                \o <<<<"sleep", "wait_before", wait_before>>>>
              ELSE /\ pc' = "client"
                   /\ log' = log \o started
    /\ UNCHANGED <<configs, network_config, strategy, result, run_args,
                   suite_vars, cycles,
                   cycle_count, order_index, success_count, clients, accounts, pending,
                   outcome>>

\* execute_order is entered for the order at order_index (lines 837-839,
\* 795-800): it sleeps wait_before seconds first if that is above 0
BeginOrder ==
    /\ pc = "order"
    /\ LET order == strategy["orders"][order_index]
           wait_before == Get(order, "wait_before", 0)
           started == <<<<"order", cycle_count, order_index>>>>
       IN  /\ order_config' = order
           /\ IF wait_before > 0
              THEN /\ pc' = "wait_before"
                   /\ log' = log \o started
                                \o <<<<"sleep", "wait_before", wait_before>>>>
              ELSE /\ pc' = "client"
                   /\ log' = log \o started
    /\ UNCHANGED <<configs, network_config, strategy, result, run_args,
                   suite_vars, cycles,
                   cycle_count, order_index, success_count, clients, accounts, pending,
                   outcome>>

\* the sleep before the order is over
WaitBefore ==
    /\ pc = "wait_before"
    /\ pc' = "client"
    /\ UNCHANGED <<engine_vars, run_args,
                   suite_vars, cycles, cycle_count, order_index,
                   success_count, clients, accounts, log, pending, outcome>>

\* GetClient with a compiler that writes the resolved long flag back into the
\* order intent
GetClientStoresFlags ==
    /\ pc = "client"
    /\ \E sdk_ok \in BOOLEAN, funding \in Fundings :
        \E c \in {get_client_and_account(order_config["wallet"], sdk_ok, funding)} :
            IF ~c.ok
            THEN /\ result' = c
                 /\ AfterOrder(FALSE)
                 /\ UNCHANGED <<clients, accounts, order_config>>
            ELSE \E payload \in {create_order_payload(order_config)} :
                    /\ clients' = clients \cup {order_config["wallet"]}
                    /\ accounts' = accounts \cup {order_config["wallet"]}
                    /\ result' = payload
                    /\ order_config' = [is_long |-> TRUE] @@ order_config
                    /\ IF payload.ok
                       THEN /\ pc' = "sign"
                            /\ UNCHANGED <<order_index, success_count, log>>
                       ELSE AfterOrder(FALSE)
    /\ UNCHANGED <<configs, network_config, strategy, run_args, suite_vars,
                   cycles, cycle_count, pending, outcome>>

\* GetClient with the order signed and submitted although its payload could
\* not be compiled
GetClientSignsAnyway ==
    /\ pc = "client"
    /\ \E sdk_ok \in BOOLEAN, funding \in Fundings :
        \E c \in {get_client_and_account(order_config["wallet"], sdk_ok, funding)} :
            IF ~c.ok
            THEN /\ result' = c
                 /\ AfterOrder(FALSE)
                 /\ UNCHANGED <<clients, accounts>>
            ELSE \E payload \in {create_order_payload(order_config)} :
                    /\ clients' = clients \cup {order_config["wallet"]}
                    /\ accounts' = accounts \cup {order_config["wallet"]}
                    /\ result' = payload
                    /\ pc' = "sign"
                    /\ UNCHANGED <<order_index, success_count, log>>
    /\ UNCHANGED <<configs, network_config, strategy, order_config, run_args,
                   suite_vars,
                   cycles, cycle_count, pending, outcome>>

\* lines 803-810: the client and the account of the order's wallet, then the
\* payload; an exception of either is caught by execute_order and is the
\* order's failure
GetClient ==
    /\ pc = "client"
    /\ \E sdk_ok \in BOOLEAN, funding \in Fundings :
        \E c \in {get_client_and_account(order_config["wallet"], sdk_ok, funding)} :
            IF ~c.ok
            THEN /\ result' = c
                 /\ AfterOrder(FALSE)
                 /\ UNCHANGED <<clients, accounts>>
            ELSE \E payload \in {create_order_payload(order_config)} :
                    /\ clients' = clients \cup {order_config["wallet"]}
                    /\ accounts' = accounts \cup {order_config["wallet"]}
                    /\ result' = payload
                    /\ IF payload.ok
                       THEN /\ pc' = "sign"
                            /\ UNCHANGED <<order_index, success_count, log>>
                       ELSE AfterOrder(FALSE)
    /\ UNCHANGED <<configs, network_config, strategy, order_config, run_args,
                   suite_vars,
                   cycles, cycle_count, pending, outcome>>

\* line 813: the transaction is signed, or signing raises; result is now
\* the outcome of the last call the order made
Sign ==
    /\ pc = "sign"
    /\ \E signed \in BOOLEAN :
          IF signed
          THEN /\ result' = Returned("create_signed_transaction", <<>>,
                                     [signed |-> TRUE], <<>>)
               /\ pc' = "submit"
               /\ log' = log \o <<<<"submit", cycle_count, order_index>>>>
               /\ UNCHANGED <<order_index, success_count>>
          ELSE /\ result' = Raised("create_signed_transaction", <<>>, "Exception",
                                   "", <<>>)
               /\ AfterOrder(FALSE)
    /\ UNCHANGED <<configs, network_config, strategy, order_config, run_args,
                   suite_vars,
                   cycles, cycle_count, clients, accounts, pending, outcome>>

\* lines 814-826: the submission returns a transaction hash, returns an
\* empty result, or raises
Submit ==
    /\ pc = "submit"
    /\ \E submitted \in {"hash", "", "raise"} :
          /\ result' = IF submitted = "raise"
                       THEN Raised("submit_transaction", <<>>, "Exception", "", <<>>)
                       ELSE Returned("submit_transaction", <<>>,
                                     [tx_hash |-> submitted], <<>>)
          /\ AfterOrder(submitted = "hash")
    /\ UNCHANGED <<configs, network_config, strategy, order_config, run_args,
                   suite_vars,
                   cycles, cycle_count, clients, accounts, pending, outcome>>

\* the delay between orders is over: the next order
OrderDelay ==
    /\ pc = "order_delay"
    /\ order_index' = order_index + 1
    /\ pc' = "order"
    /\ UNCHANGED <<engine_vars, run_args,
                   suite_vars, cycles, cycle_count, success_count,
                   clients, accounts, log, pending, outcome>>

\* the delay between cycles is over: back to the while test
CycleDelay ==
    /\ pc = "cycle_delay"
    /\ pc' = "loop"
    /\ UNCHANGED <<engine_vars, run_args,
                   suite_vars, cycles, cycle_count, order_index,
                   success_count, clients, accounts, log, pending, outcome>>

\* where the task is inside the try of run
InLoop ==
    pc \in {"loop", "order", "wait_before", "client", "sign", "submit",
            "order_delay", "cycle_delay"}

\* where the task is suspended at an await: the sleeps, the calls of the
\* client, and get_client_and_account when it asks for the balance of a
\* wallet not cached yet (lines 522-531)
Awaiting ==
    \/ pc \in {"wait_before", "sign", "submit", "order_delay", "cycle_delay"}
    \/ /\ pc = "client"
       /\ order_config["wallet"] \notin clients
       /\ configs["main"]["network"] = "testnet"
       /\ get_client_and_account(order_config["wallet"], TRUE, "funded").ok

\* An interrupt (SIGINT) while the task is inside the try.  It reaches the
\* coroutine either as KeyboardInterrupt raised in the code that is running,
\* which run catches, or, the task being suspended at an await, as the
\* cancellation of the task by the runner of asyncio.run: CancelledError
\* raised at the await.  CancelledError is no Exception: neither
\* execute_order nor run catches it.  Either way the stack unwinds to the
\* finally clause of run.
Interrupt ==
    /\ InLoop
    /\ \E how \in {"KeyboardInterrupt", "CancelledError"} :
          /\ how = "CancelledError" => Awaiting
          /\ pending' = IF how = "CancelledError" THEN how ELSE ""
          /\ log' = log \o <<<<"interrupt", how, pc>>>>
    /\ pc' = "close"
    /\ UNCHANGED <<engine_vars, run_args,
                   suite_vars, cycles, cycle_count, order_index,
                   success_count, clients, accounts, outcome>>

\* the finally clause (lines 1055-1057): close_all closes every cached
\* client; then run returns, or the exception that is unwinding leaves run
CloseAll ==
    /\ pc = "close"
    /\ log' = log \o <<<<"close_all", clients>>>>
    /\ pc' = "done"
    /\ outcome' = IF pending = "" THEN "returned" ELSE pending
    /\ UNCHANGED <<engine_vars, run_args,
                   suite_vars, cycles, cycle_count, order_index,
                   success_count, clients, accounts, pending>>

\* the steps the task takes by itself
Progress ==
    \/ Run \/ Loop \/ BeginOrder \/ WaitBefore \/ GetClient \/ Sign \/ Submit
    \/ OrderDelay \/ CycleDelay \/ CloseAll

NextRun == Progress \/ Interrupt

SpecRun == InitRun /\ [][NextRun]_vars

PcValues ==
    {"run", "loop", "order", "wait_before", "client", "sign", "submit",
     "order_delay", "cycle_delay", "close", "done"}

\* The event loop keeps running the task until run is over: every sleep
\* ends, every SDK call returns or raises.  Every step of NextRun changes
\* pc, so this is a step of the task, whichever it is.
Scheduled == pc # "done" /\ pc' \in PcValues

FairSpecRun == SpecRun /\ WF_pc(Scheduled)

(***************************************************************************)
(* SupraSDKClientManager on its own: a sequence of get_client_and_account  *)
(* calls, for wallets that are configured, that have the placeholder for   *)
(* their private key, or that are not configured, on testnet and on        *)
(* mainnet.  log keeps, for every call, the wallet, whether the call       *)
(* returned, and the SDK operations it made.                               *)
(***************************************************************************)
MaxCalls == 3

ClientWallets == DOMAIN RunWallets \cup {"trader_9"}

\* the names of the calls a call made, the calls of those calls first
RECURSIVE Made(_)
Made(cs) ==
    IF Len(cs) = 0 THEN <<>>
    ELSE Made(Head(cs).calls) \o <<Head(cs).fn>> \o Made(Tail(cs))

InitClients ==
    /\ \E n \in NetworkNames :
          configs = [RunConfig(Strategy(n, 1, <<>>)) EXCEPT !["main"]["network"] = n]
    /\ network_config = get_network_config
    /\ strategy = EmptyDict
    /\ order_config = EmptyDict
    /\ result = NoResult
    /\ NoRun

\* what a call leaves alone
ClientFrame ==
    UNCHANGED <<configs, network_config, strategy, order_config, run_args,
                suite_vars, pc, cycles, cycle_count, order_index, success_count,
                pending, outcome>>

\* lines 499-500: the wallet is in the cache
GetCached ==
    /\ Len(log) < MaxCalls
    /\ \E wallet_name \in clients, sdk_ok \in BOOLEAN, funding \in Fundings :
        \E c \in {get_client_and_account(wallet_name, sdk_ok, funding)} :
            /\ result' = c
            /\ log' = Append(log, <<wallet_name, c.ok, Made(c.calls)>>)
            /\ UNCHANGED <<clients, accounts>>
    /\ ClientFrame

\* lines 502-545: the wallet is not in the cache; the client and the account
\* are cached together once they are made (lines 537-538)
InitialiseClient ==
    /\ Len(log) < MaxCalls
    /\ \E wallet_name \in ClientWallets \ clients, sdk_ok \in BOOLEAN,
          funding \in Fundings :
        \E c \in {get_client_and_account(wallet_name, sdk_ok, funding)} :
            /\ result' = c
            /\ log' = Append(log, <<wallet_name, c.ok, Made(c.calls)>>)
            /\ IF c.ok
               THEN /\ clients' = clients \cup {wallet_name}
                    /\ accounts' = accounts \cup {wallet_name}
               ELSE UNCHANGED <<clients, accounts>>
    /\ ClientFrame

NextClients == GetCached \/ InitialiseClient

SpecClients == InitClients /\ [][NextClients]_vars

(***************************************************************************)
(* Strategy files, and the test runner of run_all_tests.py that runs one   *)
(* bot per strategy file.  A strategy file is the JSON text of the file:   *)
(* whether it is an object, and its entries in the order of the file, each *)
(* <<key, [dict, value]>> where dict tells whether the value is an object. *)
(* A test is a name (the stem of the file) and a file.  pc is, besides the *)
(* positions of an order:                                                  *)
(*   "test"     the head of the for loop of run_test_suite                 *)
(*   "load"     the bot is made, load_custom_strategies is next            *)
(*   "execute"  execute_strategy is about to be called                     *)
(*   "record"   execute_strategy has returned                              *)
(***************************************************************************)
MaxTests == 3

JsonDict(value) == [dict |-> TRUE, value |-> value]
JsonOther(value) == [dict |-> FALSE, value |-> value]

StrategyFile(entries) == [object |-> TRUE, entries |-> entries]

\* load_strategy_file taking every entry that is an object
load_strategy_file_lenient(file) ==
    IF ~file.object
    THEN Raised("load_strategy_file", <<>>, "ValueError", "object", <<>>)
    ELSE Only({
        IF valid = {}
        THEN Raised("load_strategy_file", <<>>, "ValueError", "strategies", <<>>)
        ELSE Returned("load_strategy_file", <<>>,
               [key \in {file.entries[i][1] : i \in valid} |->
                   file.entries[CHOOSE i \in valid : file.entries[i][1] = key][2].value],
               <<>>) :
            valid \in {{i \in DOMAIN file.entries : file.entries[i][2].dict}}})

\* load_strategy_file (lines 388-413) of a file that exists: the entries that
\* are objects with an "orders" key, by key; ValueError when the file is no
\* object or has no such entry
load_strategy_file(file) ==
    IF ~file.object
    THEN Raised("load_strategy_file", <<>>, "ValueError", "object", <<>>)
    ELSE Only({
        IF valid = {}
        THEN Raised("load_strategy_file", <<>>, "ValueError", "strategies", <<>>)
        ELSE Returned("load_strategy_file", <<>>,
               [key \in {file.entries[i][1] : i \in valid} |->
                   file.entries[CHOOSE i \in valid : file.entries[i][1] = key][2].value],
               <<>>) :
            valid \in {{i \in DOMAIN file.entries :
                          /\ file.entries[i][2].dict
                          /\ "orders" \in DOMAIN file.entries[i][2].value}}})

\* dict.update
update(d, other) ==
    [key \in DOMAIN d \cup DOMAIN other |->
        IF key \in DOMAIN other THEN other[key] ELSE d[key]]

\* the configuration files the bots of the tests load: the default strategy
\* and one more
TestConfig ==
    [RunConfig(Strategy("testnet", 1, <<GoodOrder("trader_1")>>))
        EXCEPT !["strategies"] =
            @ @@ [position_flow |->
                    Strategy("testnet", 2, <<GoodOrder("trader_2")>>)]]

\* The test files: one order that can succeed; no orders; an order that
\* fails before one that waits and can succeed; a strategy without
\* description; an
\* entry without orders before one that replaces the default strategy; no
\* entry with orders; and a file that is no object.
TestFiles ==
    { [name |-> "single_order",
       file |-> StrategyFile(<<
          <<"single_order",
            JsonDict(Strategy("testnet", 1, <<GoodOrder("trader_2")>>))>> >>)],
      [name |-> "empty_orders",
       file |-> StrategyFile(<<
          <<"empty_orders", JsonDict(Strategy("testnet", 1, <<>>))>> >>)],
      [name |-> "failing_order",
       file |-> StrategyFile(<<
          <<"position_flow",
            JsonDict(Strategy("testnet", 1,
                              <<BadPairOrder,
                                GoodOrder("trader_1") @@ [wait_before |-> 1]>>))>> >>)],
      [name |-> "untitled",
       file |-> StrategyFile(<<
          <<"untitled",
            JsonDict(Without(Strategy("testnet", 1, <<GoodOrder("trader_2")>>),
                             "description"))>> >>)],
      [name |-> "notes_first",
       file |-> StrategyFile(<<
          <<"notes", JsonDict([comment |-> "no orders here"])>>,
          <<"basic_cycle",
            JsonDict(Strategy("mainnet", 1, <<GoodOrder("trader_2")>>))>>,
          <<"version", JsonOther("1.0")>> >>)],
      [name |-> "no_strategy",
       file |-> StrategyFile(<<
          <<"basic_cycle", JsonDict([comment |-> "no orders here"])>>,
          <<"version", JsonOther("1.0")>> >>)],
      [name |-> "not_an_object",
       file |-> [object |-> FALSE, entries |-> <<>>]] }

\* the suites: up to MaxTests different tests, in any order
TestSuites ==
    {suite \in UNION {[1..n -> TestFiles] : n \in 1..MaxTests} :
        \A i, j \in DOMAIN suite : i # j => suite[i] # suite[j]}

\* TestSuiteRunner.__init__ and discover_test_cases: no bot yet
InitTests ==
    /\ tests_to_run \in TestSuites
    /\ results = EmptyDict
    /\ configs = TestConfig /\ bot_configs = TestConfig
    /\ network_config = get_network_config
    /\ strategy = EmptyDict
    /\ order_config = EmptyDict
    /\ result = NoResult
    /\ run_args = [strategy_name |-> <<>>, cycles |-> <<>>]
    /\ pc = "test" /\ cycles = 0 /\ cycle_count = 0
    /\ order_index = 0 /\ success_count = 0
    /\ clients = {} /\ accounts = {}
    /\ log = <<>> /\ pending = "" /\ outcome = ""

\* what the test runner never touches
SuiteFrame == UNCHANGED <<run_args, cycles, cycle_count, pending, outcome>>

\* lines 106-117: an exception inside the try is the test's ERROR
RecordError ==
    /\ results' = update(results, Head(tests_to_run).name :> [status |-> "ERROR"])
    /\ tests_to_run' = Tail(tests_to_run)
    /\ pc' = "test"

\* lines 79-92: the test file is read for its first strategy, which raises
\* when the file is no object, is empty or its first entry is no object;
\* then a bot is made, which loads the configuration files and has a client
\* manager with nothing cached
NewBot ==
    /\ pc = "test" /\ tests_to_run # <<>>
    /\ LET file == Head(tests_to_run).file
       IN  IF ~file.object \/ file.entries = <<>> \/ ~file.entries[1][2].dict
           THEN /\ RecordError
                /\ UNCHANGED <<configs, bot_configs, network_config, clients,
                               accounts, log, result>>
           ELSE /\ configs' = TestConfig /\ bot_configs' = TestConfig
                /\ network_config' = TestConfig["network"][TestConfig["main"]["network"]]
                /\ clients' = {} /\ accounts' = {}
                /\ log' = <<>>
                /\ result' = NoResult
                /\ pc' = "load"
                /\ UNCHANGED <<tests_to_run, results>>
    /\ UNCHANGED <<strategy, order_config, order_index, success_count>>
    /\ SuiteFrame

\* line 93 and load_custom_strategies (lines 1014-1023): the strategies of
\* the file are merged into the bot's strategies and into the config
\* manager's; when load_strategy_file raises, so does the call, and the test
\* is an ERROR
LoadCustomStrategies ==
    /\ pc = "load"
    /\ \E loaded \in {load_strategy_file(Head(tests_to_run).file)} :
          /\ result' = [loaded EXCEPT !.fn = "load_custom_strategies",
                                      !.calls = <<loaded>>]
          /\ IF loaded.ok
             THEN /\ bot_configs' = [bot_configs EXCEPT !["strategies"] =
                                        update(@, loaded.ret)]
                  /\ configs' = [configs EXCEPT !["strategies"] =
                                        update(@, loaded.ret)]
                  /\ pc' = "execute"
                  /\ UNCHANGED <<tests_to_run, results>>
             ELSE /\ RecordError
                  /\ UNCHANGED <<configs, bot_configs>>
    /\ UNCHANGED <<network_config, strategy, order_config, order_index,
                   success_count, clients, accounts, log>>
    /\ SuiteFrame

\* line 95 and the head of execute_strategy (lines 830-836): the strategy
\* named by the first key of the file; KeyError when it was not loaded or
\* has no name or description; with no orders it returns true at once
ExecuteStrategy ==
    /\ pc = "execute"
    /\ \E st \in {get_strategy(<<Head(tests_to_run).file.entries[1][1]>>)} :
          IF st.ok /\ {"name", "description"} \subseteq DOMAIN st.ret
          THEN /\ strategy' = st.ret
               /\ success_count' = 0
               /\ result' = st
               /\ IF Len(Get(st.ret, "orders", <<>>)) > 0
                  THEN /\ order_index' = 1
                       /\ pc' = "order"
                       /\ UNCHANGED log
                  ELSE /\ order_index' = 0
                       /\ pc' = "record"
                       /\ log' = log \o <<<<"strategy", cycle_count, TRUE>>>>
               /\ UNCHANGED <<tests_to_run, results>>
          ELSE /\ RecordError
               /\ result' = IF st.ok
                            THEN Raised("execute_strategy", <<>>, "KeyError",
                                        "description", <<st>>)
                            ELSE Raised("execute_strategy", <<>>, st.ret.kind,
                                        st.ret.what, <<st>>)
               /\ UNCHANGED <<strategy, success_count, order_index, log>>
    /\ UNCHANGED <<configs, bot_configs, network_config, order_config, clients,
                   accounts>>
    /\ SuiteFrame

\* RecordResult with PASS for a strategy of which any order succeeded
RecordResultAnySuccess ==
    /\ pc = "record"
    /\ results' = update(results,
            Head(tests_to_run).name :>
                [status |-> IF success_count > 0 THEN "PASS" ELSE "FAIL"])
    /\ tests_to_run' = Tail(tests_to_run)
    /\ pc' = "test"
    /\ UNCHANGED <<engine_vars, bot_configs, order_index, success_count, clients,
                   accounts, log>>
    /\ SuiteFrame

\* lines 95-104 and 117: execute_strategy returned success, which is the
\* last thing in the log; the test is a PASS when it is true, else a FAIL
RecordResult ==
    /\ pc = "record"
    /\ results' = update(results,
            Head(tests_to_run).name :>
                [status |-> IF log[Len(log)][3] THEN "PASS" ELSE "FAIL"])
    /\ tests_to_run' = Tail(tests_to_run)
    /\ pc' = "test"
    /\ UNCHANGED <<engine_vars, bot_configs, order_index, success_count, clients,
                   accounts, log>>
    /\ SuiteFrame

NextTests ==
    \/ NewBot \/ LoadCustomStrategies \/ ExecuteStrategy
    \/ BeginOrder \/ WaitBefore \/ GetClient \/ Sign \/ Submit \/ OrderDelay
    \/ RecordResult

SpecTests == InitTests /\ [][NextTests]_vars

(***************************************************************************)
(* Reading the outcome of a compilation.                                   *)
(***************************************************************************)
RECURSIVE Trace(_), TraceAll(_)
\* a call and every call below it, in call order
Trace(c) == <<c>> \o TraceAll(c.calls)
TraceAll(cs) == IF Len(cs) = 0 THEN <<>> ELSE Trace(Head(cs)) \o TraceAll(Tail(cs))

\* the calls of fn made by the last compilation
CallsTo(fn) == SelectSeq(Trace(result), LAMBDA c : c.fn = fn)

Compiled == result.fn = "build_order_arguments"
OnCustomPath == Compiled /\ "custom_parameters" \in DOMAIN order_config
OnStandardPath == Compiled /\ "custom_parameters" \notin DOMAIN order_config
Succeeded == Compiled /\ result.ok
\* the value of the i-th compiled argument
Arg(i) == result.ret[i].value

FlagKeys == <<"is_long", "is_increase", "is_market">>

\* the truth table of section 4.3
GuardTable(is_long, is_increase) ==
    CASE is_increase /\ is_long -> FALSE
      [] is_increase /\ ~is_long -> TRUE
      [] ~is_increase /\ is_long -> TRUE
      [] ~is_increase /\ ~is_long -> FALSE

\* the documented triple (is_long, is_increase, is_market) of each action
FixedTriple(action) ==
    CASE action = "market_open_long" -> <<TRUE, TRUE, TRUE>>
      [] action = "market_open_short" -> <<FALSE, TRUE, TRUE>>
      [] action = "limit_open_long" -> <<TRUE, TRUE, FALSE>>
      [] action = "limit_open_short" -> <<FALSE, TRUE, FALSE>>
      [] action = "market_close_long" -> <<TRUE, FALSE, TRUE>>
      [] action = "market_close_short" -> <<FALSE, FALSE, TRUE>>
      [] action = "limit_close_long" -> <<TRUE, FALSE, FALSE>>
      [] action = "limit_close_short" -> <<FALSE, FALSE, FALSE>>
      [] action = "add_to_position" -> <<TRUE, TRUE, TRUE>>
      [] action = "add_collateral" -> <<TRUE, TRUE, TRUE>>
      [] action = "partial_close" -> <<TRUE, FALSE, TRUE>>
      [] action = "full_close" -> <<TRUE, FALSE, TRUE>>
      [] action = "custom" -> <<TRUE, TRUE, TRUE>>

(***************************************************************************)
(* C1.  calculate_execution_guard is total over the booleans and returns   *)
(* the table of section 4.3: (increase, long) -> false, (increase, short)  *)
(* -> true, (decrease, long) -> true, (decrease, short) -> false, whatever *)
(* is_market is; and so does every call of it a compilation makes.         *)
(***************************************************************************)
C1_GuardTable ==
    /\ \A is_long \in BOOLEAN, is_increase \in BOOLEAN, is_market \in BOOLEAN :
          LET c == calculate_execution_guard(is_long, is_increase, is_market)
          IN  c.ok /\ c.ret \in BOOLEAN /\ c.ret = GuardTable(is_long, is_increase)
    /\ \A i \in DOMAIN CallsTo("calculate_execution_guard") :
          LET c == CallsTo("calculate_execution_guard")[i]
          IN  c.ok /\ c.ret = GuardTable(c.args[1], c.args[2])

\* a compilation asked the calculator about a limit order closing a short
C1_Witness ==
    /\ OnStandardPath
    /\ \E i \in DOMAIN CallsTo("calculate_execution_guard") :
          LET c == CallsTo("calculate_execution_guard")[i]
          IN  c.args = <<FALSE, FALSE, FALSE>> /\ c.ret = FALSE

(***************************************************************************)
(* C2.  On the standard path the compiled can_execute_above_price is the   *)
(* intent's can_execute_above_price whenever that key is present; else,    *)
(* with auto_calculate_execution_guard enabled, the table value for the    *)
(* compiled (is_long, is_increase); else true.                             *)
(***************************************************************************)
C2_GuardResolution ==
    (OnStandardPath /\ result.ok) =>
        Arg(10) =
            IF "can_execute_above_price" \in DOMAIN order_config
            THEN order_config["can_execute_above_price"]
            ELSE IF configs["main"]["orders"]["auto_calculate_execution_guard"]
            THEN GuardTable(Arg(5), Arg(6))
            ELSE TRUE

\* auto-calculate is on and the table says false, yet the explicit true wins
C2_Witness ==
    /\ OnStandardPath /\ result.ok
    /\ configs["main"]["orders"]["auto_calculate_execution_guard"]
    /\ "can_execute_above_price" \in DOMAIN order_config
    /\ order_config["can_execute_above_price"] = TRUE
    /\ GuardTable(Arg(5), Arg(6)) = FALSE
    /\ Arg(10) = TRUE

(***************************************************************************)
(* C3.  For each of the 13 recognized actions and an intent carrying none  *)
(* of is_long, is_increase, is_market, parse_action_flags returns the      *)
(* documented triple, and that triple is what a successful compilation     *)
(* puts in the arguments.                                                  *)
(***************************************************************************)
C3_FixedTriples ==
    (DOMAIN order_config \cap Range(FlagKeys) = {}) =>
        /\ \A i \in DOMAIN CallsTo("parse_action_flags") :
              LET c == CallsTo("parse_action_flags")[i]
              IN  c.args[1] \in RecognizedActions =>
                      c.ok /\ c.ret = FixedTriple(c.args[1])
        /\ (OnStandardPath /\ result.ok) =>
              <<Arg(5), Arg(6), Arg(7)>> = FixedTriple(order_config["action"])

\* limit_close_short without overrides compiled to (false, false, false)
C3_Witness ==
    /\ OnStandardPath /\ result.ok
    /\ DOMAIN order_config \cap Range(FlagKeys) = {}
    /\ order_config["action"] = "limit_close_short"
    /\ <<Arg(5), Arg(6), Arg(7)>> = <<FALSE, FALSE, FALSE>>

(***************************************************************************)
(* C4.  For every recognized action and every subset of is_long,           *)
(* is_increase, is_market supplied on the intent, each supplied flag       *)
(* appears unchanged in the resolved triple and each flag not supplied     *)
(* keeps the action's default.                                             *)
(***************************************************************************)
C4_OverridesWin ==
    \A i \in DOMAIN CallsTo("parse_action_flags") :
        LET c == CallsTo("parse_action_flags")[i]
        IN  c.args[1] \in RecognizedActions =>
              /\ c.ok
              /\ \A j \in DOMAIN FlagKeys :
                    c.ret[j] = IF FlagKeys[j] \in DOMAIN order_config
                               THEN order_config[FlagKeys[j]]
                               ELSE FixedTriple(c.args[1])[j]
              /\ (OnStandardPath /\ result.ok) => <<Arg(5), Arg(6), Arg(7)>> = c.ret

\* add_collateral with is_market = false alone resolved to (true, true, false)
C4_Witness ==
    /\ OnStandardPath /\ result.ok
    /\ order_config["action"] = "add_collateral"
    /\ DOMAIN order_config \cap Range(FlagKeys) = {"is_market"}
    /\ order_config["is_market"] = FALSE
    /\ <<Arg(5), Arg(6), Arg(7)>> = <<TRUE, TRUE, FALSE>>

(***************************************************************************)
(* C5.  Resolving an action that is not one of the 13 recognized values    *)
(* raises an unknown-action error naming the action and yields no triple,  *)
(* whatever overrides the intent supplies; compiling a standard-path       *)
(* intent with such an action produces no transaction arguments.           *)
(***************************************************************************)
C5_UnknownAction ==
    /\ \A i \in DOMAIN CallsTo("parse_action_flags") :
          LET c == CallsTo("parse_action_flags")[i]
          IN  c.args[1] \notin RecognizedActions =>
                  ~c.ok /\ c.ret = [kind |-> "ValueError", what |-> c.args[1]]
    /\ (OnStandardPath /\ order_config["action"] \notin RecognizedActions) => ~result.ok

\* an unknown action with all three overrides supplied was refused
C5_Witness ==
    /\ OnStandardPath /\ ~result.ok
    /\ order_config["action"] = "unknown_action"
    /\ Range(FlagKeys) \subseteq DOMAIN order_config
    /\ result.ret = [kind |-> "ValueError", what |-> "unknown_action"]

\* call c took `units` verbatim when the intent has it, and otherwise made
\* exactly one call of the converter conv, on the intent's `amount` key or
\* else on the pair default, and returned what the converter returned
Precedence(c, units, amount, default, conv, decimal_type) ==
    IF units \in DOMAIN order_config
    THEN c.ret = order_config[units] /\ c.calls = <<>>
    ELSE /\ Len(c.calls) = 1
         /\ c.calls[1].fn = conv
         /\ c.calls[1].args[1] =
               IF amount \in DOMAIN order_config THEN order_config[amount]
               ELSE configs["pairs"][order_config["pair"]][default]
         /\ c.calls[1].args[2] = decimal_type
         /\ c.ret = c.calls[1].ret

(***************************************************************************)
(* C6.  Standard-path precedence for size, collateral and price: the       *)
(* *_units key, when present, is used verbatim and nothing is converted;   *)
(* else the USD/price key is converted; else the pair's default is         *)
(* converted.  With both keys present the units value wins.                *)
(***************************************************************************)
C6_Precedence ==
    /\ \A i \in DOMAIN CallsTo("get_size_units") :
          Precedence(CallsTo("get_size_units")[i], "size_units", "size_usd",
                     "default_size_usd", "usd_to_units", "size")
    /\ \A i \in DOMAIN CallsTo("get_collateral_units") :
          Precedence(CallsTo("get_collateral_units")[i], "collateral_units",
                     "collateral_usd", "default_collateral_usd", "usd_to_units",
                     "collateral")
    /\ \A i \in DOMAIN CallsTo("get_price_units") :
          Precedence(CallsTo("get_price_units")[i], "price_units", "price",
                     "default_price", "price_to_units", "price")
    /\ (OnStandardPath /\ result.ok) =>
          /\ Len(CallsTo("get_size_units")) = 1
          /\ Len(CallsTo("get_collateral_units")) = 1
          /\ Len(CallsTo("get_price_units")) = 1
          /\ Arg(2) = CallsTo("get_size_units")[1].ret
          /\ Arg(3) = CallsTo("get_collateral_units")[1].ret
          /\ Arg(4) = CallsTo("get_price_units")[1].ret

\* size_units 100 beside size_usd 50.0 compiled to 100, with no conversion
\* of the size, while the collateral came from the pair default
C6_Witness ==
    /\ OnStandardPath /\ result.ok
    /\ {"size_units", "size_usd"} \subseteq DOMAIN order_config
    /\ order_config["size_units"] = 100 /\ order_config["size_usd"] = 500
    /\ Arg(2) = 100
    /\ {"collateral_units", "collateral_usd"} \cap DOMAIN order_config = {}
    /\ Len(CallsTo("get_collateral_units")[1].calls) = 1

MissingFields ==
    Range(required_fields) \ DOMAIN order_config["custom_parameters"]

(***************************************************************************)
(* C7 as stated.  For every intent whose custom_parameters lacks one of    *)
(* the seven required keys, compilation fails with a missing-field error   *)
(* naming an absent key; with all seven present it succeeds.               *)
(***************************************************************************)
C7_MissingField ==
    OnCustomPath =>
        IF MissingFields # {}
        THEN /\ ~result.ok
             /\ result.ret.kind = "ValueError"
             /\ result.ret.what \in MissingFields
        ELSE result.ok

(***************************************************************************)
(* C7 as amended.  For every intent whose wallet is configured: when its   *)
(* custom_parameters lacks one of the seven required keys, compilation     *)
(* fails with a missing-field error naming the first absent key in the     *)
(* order of the required list, and with all seven present it succeeds.     *)
(* When the wallet is not configured, compilation fails on the wallet      *)
(* lookup, whatever keys custom_parameters holds.                          *)
(***************************************************************************)
C7_MissingFieldKnownWallet ==
    OnCustomPath =>
        IF order_config["wallet"] \notin DOMAIN configs["wallets"]
        THEN ~result.ok /\ result.ret = [kind |-> "KeyError", what |-> order_config["wallet"]]
        ELSE IF MissingFields # {}
        THEN /\ ~result.ok
             /\ result.ret.kind = "ValueError"
             /\ result.ret.what \in MissingFields
             /\ \A i \in DOMAIN required_fields :
                    required_fields[i] = result.ret.what =>
                        \A j \in 1..(i - 1) : required_fields[j] \notin MissingFields
        ELSE result.ok

\* only is_market is missing, the wallet is configured, and the error names
\* is_market
C7_Witness ==
    /\ OnCustomPath
    /\ order_config["wallet"] \in DOMAIN configs["wallets"]
    /\ MissingFields = {"is_market"}
    /\ ~result.ok
    /\ result.ret = [kind |-> "ValueError", what |-> "is_market"]

\* what custom_parameters cp and the wallet entry (a sequence holding it,
\* empty when the wallet is not configured) compile to
CustomOutcome(cp, wallet) ==
    IF wallet = <<>> \/ ~(Range(required_fields) \subseteq DOMAIN cp)
    THEN <<>>
    ELSE <<wallet[1]["address"], cp["size_units"], cp["collateral_units"],
           cp["price_units"], cp["is_long"], cp["is_increase"], cp["is_market"],
           IF "stop_loss_units" \in DOMAIN cp THEN cp["stop_loss_units"] ELSE 0,
           IF "take_profit_units" \in DOMAIN cp THEN cp["take_profit_units"] ELSE 0,
           cp["can_execute_above_price"], "0x0">>

\* the values compiled, with the addresses as their strings
CompiledValues ==
    IF ~result.ok THEN <<>>
    ELSE [i \in DOMAIN result.ret |->
            IF result.ret[i].encoder = "struct"
            THEN result.ret[i].value["account_address"]
            ELSE result.ret[i].value]

(***************************************************************************)
(* C8.  When custom_parameters is present the compiled arguments are its   *)
(* values verbatim (stop_loss_units and take_profit_units 0 when absent)   *)
(* and the outcome depends on custom_parameters and the wallet alone: no   *)
(* conversion, action resolution, guard calculation or pair lookup is      *)
(* made, whatever the action, the top-level fields, the auto-calculate     *)
(* setting and the network decimals are.                                   *)
(***************************************************************************)
C8_CustomVerbatim ==
    OnCustomPath =>
        /\ CompiledValues =
              CustomOutcome(order_config["custom_parameters"],
                            IF order_config["wallet"] \in DOMAIN configs["wallets"]
                            THEN <<configs["wallets"][order_config["wallet"]]>>
                            ELSE <<>>)
        /\ \A i \in DOMAIN Trace(result) :
              Trace(result)[i].fn \in
                  {"build_order_arguments", "build_custom_order_arguments", "get_wallet"}

\* an intent whose action and top-level fields say something else compiled
\* to its custom_parameters, the absent stop loss and take profit as 0
C8_Witness ==
    /\ OnCustomPath /\ result.ok
    /\ order_config["action"] = "market_open_short"
    /\ {"size_units", "size_usd", "is_long", "stop_loss"} \subseteq DOMAIN order_config
    /\ order_config["size_units"] # order_config["custom_parameters"]["size_units"]
    /\ order_config["is_long"] # order_config["custom_parameters"]["is_long"]
    /\ OptionalFields \cap DOMAIN order_config["custom_parameters"] = {}
    /\ Arg(2) = 77 /\ Arg(5) = FALSE /\ Arg(8) = 0 /\ Arg(9) = 0

WireEncoders ==
    <<"struct", "u64", "u64", "u64", "bool", "bool", "bool", "u64", "u64",
      "bool", "struct">>

\* the value each position must carry: from custom_parameters on the custom
\* path, from the resolution calls on the standard path
WireValues ==
    IF "custom_parameters" \in DOMAIN order_config
    THEN LET cp == order_config["custom_parameters"]
         IN  <<cp["size_units"], cp["collateral_units"], cp["price_units"],
               cp["is_long"], cp["is_increase"], cp["is_market"],
               Get(cp, "stop_loss_units", 0), Get(cp, "take_profit_units", 0),
               cp["can_execute_above_price"]>>
    ELSE <<CallsTo("get_size_units")[1].ret,
           CallsTo("get_collateral_units")[1].ret,
           CallsTo("get_price_units")[1].ret,
           CallsTo("parse_action_flags")[1].ret[1],
           CallsTo("parse_action_flags")[1].ret[2],
           CallsTo("parse_action_flags")[1].ret[3],
           CallsTo("get_stop_loss_units")[1].ret,
           CallsTo("get_take_profit_units")[1].ret,
           CallsTo("resolve_execution_guard")[1].ret>>

(***************************************************************************)
(* C9.  Both paths, whenever they succeed, return exactly 11 arguments in  *)
(* the fixed order [wallet address, size, collateral, price, is_long,      *)
(* is_increase, is_market, stop_loss, take_profit, can_execute_above_price,*)
(* zero address]: the first is the address of the intent's wallet and the  *)
(* last is the zero address 0x0.                                           *)
(***************************************************************************)
C9_WireOrder ==
    (Compiled /\ result.ok) =>
        /\ Len(result.ret) = 11
        /\ \A i \in 1..11 : result.ret[i].encoder = WireEncoders[i]
        /\ Arg(1) = [account_address |->
                        configs["wallets"][order_config["wallet"]]["address"]]
        /\ Arg(11) = [account_address |-> "0x0"]
        /\ \A i \in 1..9 : Arg(i + 1) = WireValues[i]

\* a standard-path success for the second wallet with a stop loss and a
\* take profit that differ
C9_Witness ==
    /\ OnStandardPath /\ result.ok
    /\ order_config["wallet"] = "trader_2"
    /\ Arg(1) = [account_address |-> "0xb2"]
    /\ Arg(8) = 61 /\ Arg(9) = 83
    /\ Arg(11) = [account_address |-> "0x0"]

RiskPrecedence(c, units, price) ==
    IF units \in DOMAIN order_config
    THEN c.ret = order_config[units] /\ c.calls = <<>>
    ELSE IF price \notin DOMAIN order_config
    THEN c.ret = 0 /\ c.calls = <<>>
    ELSE IF order_config[price] = 0
    THEN c.ret = 0 /\ c.calls = <<>>
    ELSE order_config[price] > 0 =>
            /\ Len(c.calls) = 1
            /\ c.calls[1].fn = "price_to_units"
            /\ c.calls[1].args[1] = order_config[price]
            /\ c.ret = c.calls[1].ret

(***************************************************************************)
(* C10.  On the standard path, when stop_loss_units (take_profit_units) is *)
(* absent, a stop_loss (take_profit) that is absent or exactly 0 compiles  *)
(* to 0 and is never passed to the price converter; a value greater than 0 *)
(* compiles to its price-unit conversion; an explicit stop_loss_units      *)
(* (take_profit_units) is used verbatim and wins over the price form.      *)
(***************************************************************************)
C10_RiskSentinel ==
    /\ \A i \in DOMAIN CallsTo("get_stop_loss_units") :
          RiskPrecedence(CallsTo("get_stop_loss_units")[i], "stop_loss_units", "stop_loss")
    /\ \A i \in DOMAIN CallsTo("get_take_profit_units") :
          RiskPrecedence(CallsTo("get_take_profit_units")[i], "take_profit_units",
                         "take_profit")
    /\ (OnStandardPath /\ result.ok) =>
          /\ Len(CallsTo("get_stop_loss_units")) = 1
          /\ Len(CallsTo("get_take_profit_units")) = 1
          /\ Arg(8) = CallsTo("get_stop_loss_units")[1].ret
          /\ Arg(9) = CallsTo("get_take_profit_units")[1].ret

\* a stop_loss of exactly 0 compiled to 0 unconverted, beside a take_profit
\* above 0 that was converted
C10_Witness ==
    /\ OnStandardPath /\ result.ok
    /\ "stop_loss_units" \notin DOMAIN order_config
    /\ "stop_loss" \in DOMAIN order_config /\ order_config["stop_loss"] = 0
    /\ Arg(8) = 0 /\ CallsTo("get_stop_loss_units")[1].calls = <<>>
    /\ "take_profit_units" \notin DOMAIN order_config
    /\ "take_profit" \in DOMAIN order_config /\ order_config["take_profit"] > 0
    /\ Len(CallsTo("get_take_profit_units")[1].calls) = 1
    /\ Arg(9) > 0

\* the calls of the two unit converters made by the last compilation
ConverterCalls ==
    SelectSeq(Trace(result), LAMBDA c : c.fn \in {"usd_to_units", "price_to_units"})

\* floor(amount * 10^decimals) of the decimal amount num / 10^AmountDigits
FloorUnits(num, decimals) == (num * Pow10(decimals)) \div Pow10(AmountDigits)

(***************************************************************************)
(* C11.  For every non-negative amount and decimals, usd_to_units and      *)
(* price_to_units return floor(amount * 10^decimals): truncation is the    *)
(* only rounding.  (Refuted: the float product is rounded to the nearest   *)
(* double before int() truncates it, and 2.3 * 10^2 is the double just     *)
(* below 230, so the result is 229.)                                       *)
(***************************************************************************)
C11_FloorOfProduct ==
    \A i \in DOMAIN ConverterCalls :
        LET c == ConverterCalls[i]
        IN  c.args[1] >= 0 => c.ok /\ c.ret = FloorUnits(c.args[1], c.args[3])

\* The amount the standard path converts for a units key that is absent:
\* the USD field, or the pair default in its place; 0 stands for "none"
\* (explicit units given, or no such pair).
AmountUsed(units, usd, default) ==
    IF units \in DOMAIN order_config THEN 0
    ELSE IF usd \in DOMAIN order_config THEN order_config[usd]
    ELSE IF order_config["pair"] \in DOMAIN configs["pairs"]
    THEN configs["pairs"][order_config["pair"]][default]
    ELSE 0

NegativeAmountUsed ==
    \/ AmountUsed("size_units", "size_usd", "default_size_usd") < 0
    \/ AmountUsed("collateral_units", "collateral_usd", "default_collateral_usd") < 0

(***************************************************************************)
(* C12.  A standard-path compilation whose size or collateral amount       *)
(* (size_usd / collateral_usd, or the pair default in its place) is        *)
(* negative fails and yields no arguments, and a negative size or          *)
(* collateral is never handed to the unit converter.  (Refuted: nothing    *)
(* checks the sign; size_usd -1.5 is converted and compiled to negative    *)
(* units.)                                                                 *)
(***************************************************************************)
C12_NegativeRejected ==
    OnStandardPath =>
        /\ NegativeAmountUsed => ~result.ok
        /\ \A i \in DOMAIN CallsTo("usd_to_units") :
              CallsTo("usd_to_units")[i].args[1] >= 0

\* the network configuration of the network named by the main configuration
ActiveNetwork == configs["network"][configs["main"]["network"]]

\* every converter call below a call of get is of fn with decimal_type
ConvertsWith(get, fn, decimal_type) ==
    \A i \in DOMAIN CallsTo(get) : \A j \in DOMAIN CallsTo(get)[i].calls :
        LET c == CallsTo(get)[i].calls[j]
        IN  c.fn = fn /\ c.args[2] = decimal_type

(***************************************************************************)
(* C13.  Every conversion uses the decimals of the active network, the one *)
(* named by the main configuration: size with its size_decimals,           *)
(* collateral with its collateral_decimals, price, stop_loss and           *)
(* take_profit with its price_decimals; the "network" field of the         *)
(* strategy the order comes from does not take part.                       *)
(***************************************************************************)
C13_ActiveNetworkDecimals ==
    /\ \A i \in DOMAIN ConverterCalls :
          LET c == ConverterCalls[i]
              decimals == ActiveNetwork[c.args[2] \o "_decimals"]
          IN  /\ c.args[3] = decimals
              /\ c.ret = int(float_mul_pow10(float(c.args[1]), decimals))
    /\ ConvertsWith("get_size_units", "usd_to_units", "size")
    /\ ConvertsWith("get_collateral_units", "usd_to_units", "collateral")
    /\ ConvertsWith("get_price_units", "price_to_units", "price")
    /\ ConvertsWith("get_stop_loss_units", "price_to_units", "price")
    /\ ConvertsWith("get_take_profit_units", "price_to_units", "price")

\* size, collateral, price, stop loss and take profit were all converted,
\* under a strategy naming the other network, whose three decimals are all
\* different from those of the active one
C13_Witness ==
    /\ OnStandardPath /\ result.ok
    /\ Len(ConverterCalls) = 5
    /\ strategy["network"] # configs["main"]["network"]
    /\ \A t \in {"size_decimals", "collateral_decimals", "price_decimals"} :
          configs["network"][strategy["network"]][t] # ActiveNetwork[t]

\* the intent of the end-to-end example: exactly these fields beside the
\* name, pair and wallet every order carries
EndToEndIntent ==
    /\ DOMAIN order_config =
          {"name", "action", "pair", "wallet", "size_usd", "collateral_usd",
           "price", "stop_loss", "take_profit"}
    /\ order_config["action"] = "market_open_long"
    /\ order_config["size_usd"] = Dec(300)
    /\ order_config["collateral_usd"] = Dec(3)
    /\ order_config["price"] = Dec(3500)
    /\ order_config["stop_loss"] = Dec(3150)
    /\ order_config["take_profit"] = Dec(3850)

EndToEndConfig ==
    /\ ActiveNetwork["size_decimals"] = 6
    /\ ActiveNetwork["collateral_decimals"] = 6
    /\ ActiveNetwork["price_decimals"] = 10
    /\ configs["main"]["orders"]["auto_calculate_execution_guard"]

(***************************************************************************)
(* C14.  End to end: the intent {market_open_long, size_usd 300,           *)
(* collateral_usd 3, price 3500, stop_loss 3150, take_profit 3850}         *)
(* compiled with size_decimals 6, collateral_decimals 6, price_decimals 10 *)
(* and the guard calculated automatically yields size 300000000,           *)
(* collateral 3000000, price 35000000000000, is_long, is_increase and      *)
(* is_market true, stop_loss 31500000000000, take_profit 38500000000000    *)
(* and can_execute_above_price false.  (The three price values are wider   *)
(* than 2^30 and appear as their base-10000 groups.)                       *)
(***************************************************************************)
C14_EndToEnd ==
    (Compiled /\ EndToEndIntent /\ EndToEndConfig) =>
        /\ result.ok
        /\ Arg(2) = 300000000
        /\ Arg(3) = 3000000
        /\ Arg(4) = <<35, 0, 0, 0>>
        /\ Arg(5) = TRUE /\ Arg(6) = TRUE /\ Arg(7) = TRUE
        /\ Arg(8) = <<31, 5000, 0, 0>>
        /\ Arg(9) = <<38, 5000, 0, 0>>
        /\ Arg(10) = FALSE

\* the example intent was compiled under the example configuration
C14_Witness ==
    /\ Compiled /\ EndToEndIntent /\ EndToEndConfig
    /\ result.ok /\ Len(ConverterCalls) = 5

(***************************************************************************)
(* The cycle driver: what the log of a run shows.                          *)
(***************************************************************************)

Events(kind) == SelectSeq(log, LAMBDA e : e[1] = kind)

\* the sleeps of one kind: "orders", "cycles" or "wait_before"
Sleeps(kind) == SelectSeq(log, LAMBDA e : e[1] = "sleep" /\ e[2] = kind)

\* the orders attempted so far, <<cycle, index>>, in the order of attempt
Attempts == [k \in 1..Len(Events("order")) |->
                <<Events("order")[k][2], Events("order")[k][3]>>]

\* n cycles over m orders, in strict sequence
InSequence(n, m) ==
    [k \in 1..(n * m) |-> <<((k - 1) \div m) + 1, ((k - 1) % m) + 1>>]

Interrupted == Len(Events("interrupt")) > 0
UnexpectedError == Len(Events("error")) > 0
Orders == Get(strategy, "orders", <<>>)

\* run is over, it was called with cycles = 2 over three orders and was not
\* cancelled
TwoCyclesOfThree ==
    /\ pc = "done" /\ cycles = 2 /\ Len(Orders) = 3
    /\ ~Interrupted

\* C15 as stated: six attempts in sequence, the delay between orders five
\* times, the delay between cycles once
C15_FiveOrderDelays ==
    TwoCyclesOfThree =>
        /\ Attempts = InSequence(2, 3)
        /\ Len(Sleeps("orders")) = 5
        /\ Len(Sleeps("cycles")) = 1

C15_Counts ==
    TwoCyclesOfThree =>
        /\ Attempts = InSequence(2, 3)
        /\ Len(Sleeps("orders")) = 4
        /\ Len(Sleeps("cycles")) = 1
        /\ outcome = "returned"

(***************************************************************************)
(* C15, amended.  A run with cycles = 2 over a strategy of 3 orders, with  *)
(* no cancellation, performs exactly 6 order attempts in strict sequence   *)
(* (orders 1, 2, 3 of cycle 1, then orders 1, 2, 3 of cycle 2), applies    *)
(* the delay between orders 4 times (after orders 1 and 2 of each cycle;   *)
(* execute_strategy does not sleep after its last order), applies the      *)
(* delay between cycles once, and then terminates.                         *)
(***************************************************************************)
C15_TwoCyclesOfThree ==
    /\ []C15_Counts
    /\ (pc = "loop" /\ cycles = 2 /\ Len(Orders) = 3) ~> (pc = "done")

\* such a run is over, with every order of both cycles submitted
C15_Witness ==
    /\ TwoCyclesOfThree
    /\ Len(Events("submit")) = 6
    /\ Len(Events("close_all")) = 1

\* the orders that were begun and have not returned
InFlight ==
    {a \in {Attempts[k] : k \in 1..Len(Attempts)} :
        \A k \in 1..Len(log) :
            ~(log[k][1] = "result" /\ <<log[k][2], log[k][3]>> = a)}

\* where an order is being processed
InOrder == pc \in {"wait_before", "client", "sign", "submit"}

\* the k-th event of the log begins an order that is not the first of its
\* cycle: the two events before it are the return of the order before it in
\* the list, in the same cycle, and the delay between orders
BegunAfterDelay(k) ==
    /\ k > 2
    /\ log[k - 2] = <<"result", log[k][2], log[k][3] - 1>>
    /\ log[k - 1] = <<"sleep", "orders", timing["sleep_between_orders"]>>

(***************************************************************************)
(* C16.  Within a cycle at most one order is in flight at any time: the    *)
(* processing of order i+1 (wait_before, client lookup, compile, sign,     *)
(* submit) does not begin until order i has returned, with success or      *)
(* failure, and the delay between orders has elapsed; orders are attempted *)
(* in the order of the strategy's list.                                    *)
(***************************************************************************)
C16_OneOrderInFlight ==
    /\ Cardinality(InFlight) <= 1
    /\ InFlight \subseteq {<<cycle_count, order_index>>}
    /\ InOrder => InFlight = {<<cycle_count, order_index>>}
    /\ \A k \in 1..Len(log) :
          log[k][1] = "order" =>
              IF log[k][3] = 1
              THEN k > 1 /\ log[k - 1] = <<"cycle", log[k][2]>>
              ELSE BegunAfterDelay(k)
    /\ pc = "order_delay" =>
          /\ InFlight = {}
          /\ log[Len(log)] = <<"sleep", "orders", timing["sleep_between_orders"]>>
    /\ \A k \in 1..Len(Attempts) :
          k > 1 /\ Attempts[k][1] = Attempts[k - 1][1] =>
              Attempts[k][2] = Attempts[k - 1][2] + 1

\* the third order of the second cycle is being submitted; the five before
\* it have returned
C16_Witness ==
    /\ pc = "submit" /\ cycle_count = 2 /\ order_index = 3
    /\ Len(Events("result")) = 5
    /\ InFlight = {<<2, 3>>}

\* the last call the current order made failed: a lookup or a validation of
\* the compilation, the initialisation of the client, the signing or the
\* submission raised, or the submission returned an empty result
OrderFailed ==
    \/ ~result.ok
    \/ result.fn = "submit_transaction" /\ result.ret.tx_hash = ""

\* this step is the return of execute_order
OrderReturns ==
    /\ InOrder
    /\ Len(Events("result"))' = Len(Events("result")) + 1

\* a finite run is over that was not cancelled and met no unexpected error
RanToEnd ==
    /\ pc = "done" /\ outcome = "returned" /\ cycles >= 0
    /\ ~Interrupted /\ ~UnexpectedError

\* every order of every cycle was attempted, in sequence
AllAttempted ==
    Len(Orders) > 0 => Attempts = InSequence(cycles, Len(Orders))

\* the return of an order that failed is not counted as a success, and is
\* followed by the delay before the next order of the cycle or, after the
\* last order, by the end of the strategy in this cycle and the delay
\* before the next cycle if one is left
FailureGoesOn ==
    OrderReturns /\ OrderFailed' =>
        /\ success_count' = success_count
        /\ log'[Len(log')][1] \in {"sleep", "strategy"}
        /\ IF order_index < Len(Orders)
           THEN pc' = "order_delay" /\ order_index' = order_index
           ELSE IF cycles = -1 \/ cycle_count < cycles
                THEN pc' = "cycle_delay"
                ELSE pc' = "close" /\ ~Interrupted'

(***************************************************************************)
(* C17.  A failure of one order (a configuration error such as an unknown  *)
(* pair, wallet or action; a validation error such as a missing            *)
(* custom-parameters key; an error of client initialisation, signing or    *)
(* submission; or an empty submission result) is recorded as that order's  *)
(* failure and does not abort the strategy or the cycle loop: every later  *)
(* order of the cycle and every later cycle is still attempted.            *)
(***************************************************************************)
C17_FailureDoesNotAbort ==
    /\ [][FailureGoesOn]_vars
    /\ [](RanToEnd => AllAttempted)

\* a run of two cycles is over in which no order succeeded: the orders
\* failed on an unconfigured wallet, on custom parameters without their
\* keys and on a private key never filled in, and the last on its
\* submission, which returned an empty result
C17_Witness ==
    /\ RanToEnd /\ cycles = 2 /\ Len(Orders) = 4
    /\ Events("strategy") = <<<<"strategy", 1, FALSE>>, <<"strategy", 2, FALSE>>>>
    /\ success_count = 0
    /\ result.fn = "submit_transaction" /\ result.ok /\ result.ret.tx_hash = ""
    /\ Len(Attempts) = 8

\* the cycles begun so far
CyclesBegun == [k \in 1..Len(Events("cycle")) |-> Events("cycle")[k][2]]

\* the k-th event of the log is the end of the strategy in a cycle
StrategyEnds(k) == log[k][1] = "strategy"

CycleSleep == <<"sleep", "cycles", timing["sleep_between_cycles"]>>

\* run has resolved its cycles: the argument, else the strategy's "cycles",
\* else -1
CyclesResolved ==
    pc \notin {"run", "done"} \/ (pc = "done" /\ outcome # "KeyError") =>
        cycles = IF run_args.cycles # <<>> THEN run_args.cycles[1]
                 ELSE IF "cycles" \in DOMAIN strategy THEN strategy["cycles"]
                 ELSE -1

\* a finite run that is over ran its N cycles one after another, slept
\* between consecutive cycles and not after the last
FiniteCycles ==
    RanToEnd =>
        /\ cycle_count = cycles
        /\ CyclesBegun = [k \in 1..cycles |-> k]
        /\ Len(Sleeps("cycles")) = IF cycles = 0 THEN 0 ELSE cycles - 1
        /\ \A k \in 1..Len(log) :
              StrategyEnds(k) =>
                  IF log[k][2] < cycles
                  THEN /\ log[k + 1] = CycleSleep
                       /\ log[k + 2] = <<"cycle", log[k][2] + 1>>
                  ELSE log[k + 1][1] = "close_all"

\* an endless run ends only by a cancellation or an unexpected error, and
\* after every cycle it completes it sleeps and begins the next (the model
\* follows it for MaxCycles cycles)
EndlessCycles ==
    cycles = -1 /\ pc \notin {"run"} =>
        /\ pc \in {"close", "done"} => Interrupted \/ UnexpectedError
        /\ \A k \in 1..Len(log) :
              StrategyEnds(k) =>
                  /\ log[k + 1] = CycleSleep
                  /\ k + 2 <= Len(log) =>
                        log[k + 2][1] \in {"cycle", "interrupt"}
        /\ pc = "loop" /\ cycle_count < MaxCycles => ENABLED Loop

(***************************************************************************)
(* C18.  With cycles = N >= 0 and no cancellation, run executes exactly N  *)
(* cycles one after another, sleeps the delay between cycles between       *)
(* consecutive cycles but not after the last, and then terminates; with    *)
(* cycles = -1 it never terminates on its own and starts a new cycle after *)
(* every completed one until it is cancelled.  When no cycles argument is  *)
(* given, the strategy's "cycles" value is used, and -1 if it has none.    *)
(***************************************************************************)
C18_Cycles ==
    /\ [](CyclesResolved /\ FiniteCycles /\ EndlessCycles)
    /\ (pc = "loop" /\ cycles >= 0) ~> (pc = "done")

\* a run of as many cycles as the model follows is over, and was not
\* cancelled
C18_Witness ==
    /\ RanToEnd /\ cycles = MaxCycles
    /\ Len(Sleeps("cycles")) = MaxCycles - 1
    /\ Len(Orders) > 0

\* the position in the log of the interrupt, 0 if there was none
InterruptedAt ==
    IF Interrupted
    THEN CHOOSE k \in 1..Len(log) : log[k][1] = "interrupt"
    ELSE 0

(***************************************************************************)
(* C19.  On external cancellation (an interrupt) at any point of run's     *)
(* cycle loop, no further order is started and no further cycle begins,    *)
(* close_all is invoked on the SDK manager exactly once, and run returns   *)
(* normally without raising to its caller; close_all is likewise invoked   *)
(* exactly once when run ends normally or on an unexpected error.  (A run  *)
(* whose strategy name is unknown never enters the cycle loop and is left  *)
(* aside here.)                                                            *)
(***************************************************************************)
C19_CancellationCleansUp ==
    /\ Interrupted =>
          /\ \A k \in 1..Len(log) :
                k > InterruptedAt => log[k][1] = "close_all"
          /\ pc = "done" => outcome = "returned"
    /\ pc = "done" /\ outcome # "KeyError" => Len(Events("close_all")) = 1
    /\ Len(Events("close_all")) <= 1

(***************************************************************************)
(* C20.  Cancellation takes effect only at the boundaries between orders   *)
(* and between cycles: once the submission of an order has started, it     *)
(* runs to completion, with success or failure, before the cancellation    *)
(* stops the loop; a submission is never abandoned mid-way by a            *)
(* cancellation.                                                           *)
(***************************************************************************)
C20_SubmissionNeverAbandoned ==
    Interrupted =>
        \A k \in 1..Len(log) :
            log[k][1] = "submit" =>
                \E j \in (k + 1)..Len(log) :
                    log[j] = <<"result", log[k][2], log[k][3]>>

(***************************************************************************)
(* The compiler reads and never writes.                                    *)
(***************************************************************************)
\* the step in which the current order is compiled: the payload, or what
\* compilation raised, is the result
CompilesOrder ==
    /\ pc = "client" /\ ~Interrupted'
    /\ result'.fn = "create_order_payload"

\* the last thing the current order did was to compile, and no later order
\* has begun: result is what compilation gave for order_config
CompiledLast ==
    /\ result.fn = "create_order_payload"
    /\ pc \in {"sign", "order_delay", "cycle_delay", "loop", "order"}

\* the order intent (its custom_parameters included) and the pair, wallet,
\* network and main configuration are the same after the step
CompilerFrame ==
    /\ order_config' = order_config
    /\ strategy' = strategy
    /\ configs' = configs
    /\ network_config' = network_config

\* C21: compilation (build_order_arguments and build_type_arguments) leaves
\* the order intent, its custom_parameters and the pair, wallet, network and
\* main configuration unchanged, whether it succeeds or fails; so whenever an
\* intent has been compiled, in whatever cycle and after whatever other
\* intents, compiling it again against the configuration gives the result
\* that was obtained.
C21_CompilationReadsOnly ==
    /\ [][CompilesOrder => CompilerFrame]_vars
    /\ [](CompiledLast => result = create_order_payload(order_config))

\* in the second cycle, after compilations of other intents, an intent that
\* was compiled in the first cycle has failed to compile again
C21_Witness ==
    /\ cycle_count = 2
    /\ result.fn = "create_order_payload" /\ ~result.ok
    /\ order_index = 3
    /\ \E k \in 1..Len(log) : log[k] = <<"result", 1, 3>>

\* the same, with a successful compilation
C21_WitnessSucceeds ==
    /\ cycle_count = 2
    /\ result.fn = "create_order_payload" /\ result.ok
    /\ order_index = 2
    /\ \E k \in 1..Len(log) : log[k] = <<"result", 1, 2>>

(***************************************************************************)
(* C22.  For every intent whose pair name is not a key of the pair         *)
(* configuration, the compilation of the argument sequence fails and       *)
(* returns no arguments, on the standard path and on the custom path       *)
(* alike, even when the intent gives explicit units for every amount.      *)
(* (Refuted on the custom path: build_custom_order_arguments never looks   *)
(* the pair up, so the eleven arguments are returned for a pair that is    *)
(* not configured.)                                                        *)
(***************************************************************************)
UnknownPair == order_config["pair"] \notin DOMAIN configs["pairs"]

C22_UnknownPairFails ==
    (Compiled /\ UnknownPair) => ~result.ok

(***************************************************************************)
(* Attempts of an order.                                                   *)
(***************************************************************************)
\* no event of the kind is in the log twice
NoRepeat(kind) ==
    \A j, k \in 1..Len(Events(kind)) : j # k => Events(kind)[j] # Events(kind)[k]

\* attempt a is of an earlier cycle than attempt b, or of the same cycle and
\* an earlier place in the list
Earlier(a, b) == a[1] < b[1] \/ (a[1] = b[1] /\ a[2] < b[2])

\* the current order has begun and has done nothing yet but wait
JustBegun ==
    /\ Len(log) > 0
    /\ \/ log[Len(log)] = <<"order", cycle_count, order_index>>
       \/ /\ Len(log) > 1
          /\ log[Len(log)][1] = "sleep" /\ log[Len(log)][2] = "wait_before"
          /\ log[Len(log) - 1] = <<"order", cycle_count, order_index>>

\* the step in which submit_transaction is called for the current order
SubmitsOrder ==
    /\ pc = "submit" /\ ~Interrupted'
    /\ result'.fn = "submit_transaction"

\* the current order has returned in the step
OrderEnds ==
    /\ pc' \notin {"order", "wait_before", "client", "sign", "submit"}
    /\ log' # log
    /\ \E k \in Len(log) + 1..Len(log') :
            log'[k] = <<"result", cycle_count, order_index>>

\* C23: nothing is retried.  Within one cycle each order is begun once,
\* compiled at most once (the compilation is the first thing the attempt does
\* after its wait, and the attempt never comes back to it) and submitted at
\* most once; the submission, whether it returns a hash, returns an empty
\* result or raises, ends the attempt; and an order is attempted again only
\* in a later cycle.
C23_NothingRetried ==
    /\ [](NoRepeat("order") /\ NoRepeat("submit") /\ NoRepeat("result"))
    /\ [](\A k \in 2..Len(Attempts) : Earlier(Attempts[k - 1], Attempts[k]))
    /\ [](pc \in {"wait_before", "client"} => JustBegun)
    /\ [][CompilesOrder => pc' \notin {"order", "wait_before", "client"}]_vars
    /\ [][SubmitsOrder => OrderEnds]_vars

\* the only order of the strategy was submitted without success in the first
\* cycle and is being submitted again in the second
C23_Witness ==
    /\ Len(Orders) = 1
    /\ \E k \in 1..Len(log) : log[k] = <<"submit", 1, 1>>
    /\ \E k \in 1..Len(log) : log[k] = <<"strategy", 1, FALSE>>
    /\ cycle_count = 2 /\ pc = "submit"

(***************************************************************************)
(* The wait before an order.                                               *)
(***************************************************************************)
\* the wait_before of the order at place i of the list, 0 when it has none
WaitOf(i) == Get(Orders[i], "wait_before", 0)

\* the k-th event of the log is the wait before the order begun at k - 1
WaitsBefore(k) ==
    /\ k <= Len(log)
    /\ log[k] = <<"sleep", "wait_before", WaitOf(log[k - 1][3])>>

\* the step in which the client of the current order is asked for
AcquiresClient ==
    /\ pc = "client" /\ ~Interrupted'
    /\ result'.fn \in {"get_client_and_account", "create_order_payload"}

\* C24: an order with wait_before > 0 sleeps wait_before seconds before its
\* client is asked for, its payload compiled, signed and submitted; an order
\* with wait_before absent or 0 has no delay of its own.  The delay is applied
\* once in every attempt of the order, in every cycle.
C24_WaitBefore ==
    /\ [](\A k \in 1..Len(log) :
            /\ log[k][1] = "order" => (WaitOf(log[k][3]) > 0 <=> WaitsBefore(k + 1))
            /\ (log[k][1] = "sleep" /\ log[k][2] = "wait_before") =>
                  /\ k > 1 /\ log[k - 1][1] = "order"
                  /\ WaitsBefore(k)
                  /\ log[k][3] > 0)
    /\ [](pc = "wait_before" => /\ WaitOf(order_index) > 0
                                /\ log[Len(log)][1] = "sleep" /\ JustBegun)
    /\ [][AcquiresClient => /\ JustBegun
                            /\ WaitOf(order_index) > 0 =>
                                    log[Len(log)] = <<"sleep", "wait_before",
                                                      WaitOf(order_index)>>]_vars
    /\ [][pc' = "client" /\ pc # "client" =>
            pc = (IF WaitOf(order_index) > 0 THEN "wait_before" ELSE "order")]_vars

\* in the second cycle the third order has waited again and its client is
\* about to be asked for, after the second order, whose wait is 0, went
\* without a delay of its own
C24_Witness ==
    /\ cycle_count = 2 /\ order_index = 3 /\ pc = "client"
    /\ WaitOf(3) = 2 /\ "wait_before" \in DOMAIN Orders[2] /\ WaitOf(2) = 0
    /\ Len(Sleeps("wait_before")) = 2

(***************************************************************************)
(* What an order needs before it is signed and submitted.                  *)
(***************************************************************************)
\* the private key of the wallet is configured and is not the placeholder
KeyConfigured(wallet_name) ==
    /\ get_wallet(wallet_name).ok
    /\ Get(get_wallet(wallet_name).ret, "private_key", "")
            \notin {"", "your_private_key_hex_here"}

\* the step in which the client could not be had or the payload not compiled
FailsBeforeSigning == AcquiresClient /\ ~result'.ok

\* a call of the transport is the result of the step
CallsTransport ==
    /\ result' # result
    /\ result'.fn \in {"create_signed_transaction", "submit_transaction"}

\* C25: an order is signed and submitted only after its client and account
\* were obtained and its payload compiled.  If the client cannot be
\* initialised (a wallet that is not configured, a private key that is
\* missing or the placeholder, a failure of the SDK) or the compilation
\* raises, the attempt ends there as a failure: it is not counted as a
\* success and neither create_signed_transaction nor submit_transaction is
\* called for it.
C25_SubmitNeedsClientAndPayload ==
    /\ [][FailsBeforeSigning =>
            /\ OrderEnds
            /\ success_count' = success_count
            /\ \A k \in 1..Len(log') :
                    log'[k] # <<"submit", cycle_count, order_index>>]_vars
    /\ [][CallsTransport => pc \in {"sign", "submit"}]_vars
    /\ [][(pc' = "sign" => pc \in {"client", "sign"})
          /\ (pc' = "submit" => pc \in {"sign", "submit"})]_vars
    /\ [](pc = "sign" => /\ result.fn = "create_order_payload" /\ result.ok
                         /\ order_config["wallet"] \in clients)
    /\ [](\A k \in 1..Len(log) :
            log[k][1] = "submit" =>
                /\ KeyConfigured(Orders[log[k][3]]["wallet"])
                /\ Orders[log[k][3]]["wallet"] \in clients
                /\ create_order_payload(Orders[log[k][3]]).ok)

\* the third order, whose wallet has the placeholder for its private key,
\* has ended without a success after the client could not be initialised
C25_Witness ==
    /\ result.fn = "get_client_and_account" /\ ~result.ok
    /\ result.ret.kind = "ValueError"
    /\ ~KeyConfigured(order_config["wallet"])
    /\ pc = "order_delay" /\ order_index = 3 /\ success_count = 0
    /\ log[Len(log) - 1] = <<"result", cycle_count, 3>>

\* the same for an order whose compilation raised
C25_WitnessCompilation ==
    /\ result.fn = "create_order_payload" /\ ~result.ok
    /\ pc = "order_delay" /\ order_index = 1 /\ success_count = 0
    /\ log[Len(log) - 1] = <<"result", cycle_count, 1>>

(***************************************************************************)
(* The cache of clients and accounts.                                      *)
(***************************************************************************)
\* the k-th call made a client or an account, or asked for a balance or the
\* faucet
MadeAny(k) == \E i \in DOMAIN log[k][3] : log[k][3][i] # "get_wallet"

\* the k-th call made both a client and an account
MadeBoth(k) ==
    /\ \E i \in DOMAIN log[k][3] : log[k][3][i] = "SupraClient"
    /\ \E i \in DOMAIN log[k][3] : log[k][3][i] = "Account.load_key"

\* the calls so far that returned for the wallet
ReturnedFor(wallet_name) ==
    {k \in 1..Len(log) : log[k][1] = wallet_name /\ log[k][2]}

\* C27: across any sequence of get_client_and_account calls a client and an
\* account are made at most once for a wallet name once an initialisation
\* has succeeded: the first call that returns makes them, every later call
\* for that wallet returns the cached pair and makes no SDK call at all (no
\* creation, no balance check, no faucet).  A call that raises caches
\* nothing, so the next call for the wallet goes through the initialisation
\* again.  clients and accounts always hold the same wallet names.
C27_ClientCache ==
    /\ [](clients = accounts)
    /\ [](clients = {w \in ClientWallets : ReturnedFor(w) # {}})
    /\ [](\A k \in 1..Len(log) :
            IF \E j \in ReturnedFor(log[k][1]) : j < k
            THEN log[k][2] /\ log[k][3] = <<>>
            ELSE /\ Len(log[k][3]) > 0 /\ log[k][3][1] = "get_wallet"
                 /\ log[k][2] => MadeBoth(k)
                 /\ ~log[k][2] => ~MadeAny(k))
    /\ [][~result'.ok => clients' = clients /\ accounts' = accounts]_vars
    /\ [][result'.ok /\ log' # log =>
            /\ clients' = clients \cup {result'.args[1]}
            /\ accounts' = accounts \cup {result'.args[1]}]_vars

\* a wallet whose initialisation failed was initialised by the next call and
\* came from the cache in the third, on testnet with a call of the faucet
C27_Witness ==
    /\ Len(log) = 3
    /\ log[1] = <<"trader_1", FALSE, <<"get_wallet">>>>
    /\ log[2] = <<"trader_1", TRUE, <<"get_wallet", "SupraClient", "Account.load_key",
                                     "account_coin_balance", "faucet">>>>
    /\ log[3] = <<"trader_1", TRUE, <<>>>>
    /\ clients = {"trader_1"} /\ accounts = {"trader_1"}

(***************************************************************************)
(* What execute_strategy returns and what the test runner records.         *)
(***************************************************************************)
\* the test that is running
TestName == Head(tests_to_run).name

\* where the task is inside the pass of execute_strategy over the orders, or
\* has just returned from it
InPass ==
    pc \in {"order", "wait_before", "client", "sign", "submit", "order_delay",
            "record"}

\* the step in which the submission of the current order returns a hash
OrderSucceeds ==
    /\ pc = "submit"
    /\ result'.fn = "submit_transaction" /\ result'.ok
    /\ result'.ret.tx_hash # ""

\* what execute_strategy returned, when it has returned
ReturnedTrue == log[Len(log)] = <<"strategy", cycle_count, TRUE>>
ReturnedFalse == log[Len(log)] = <<"strategy", cycle_count, FALSE>>

\* the step records one result, for the test that is running, and goes on to
\* the next test
RecordsOne(status) ==
    /\ TestName \notin DOMAIN results
    /\ DOMAIN results' = DOMAIN results \cup {TestName}
    /\ \A name \in DOMAIN results : results'[name] = results[name]
    /\ results'[TestName].status = status
    /\ tests_to_run' = Tail(tests_to_run)

\* C26: execute_strategy returns true if and only if every order of the
\* strategy was attempted and succeeded in that pass (true for an empty
\* list): the tally grows by one exactly when an order ends with a
\* transaction hash, it never exceeds the number of orders attempted so far,
\* and the value returned is whether it equals the number of orders.  The
\* test runner records PASS exactly when execute_strategy returned true, FAIL
\* when it returned false and ERROR when it raised, one result per test.
C26_StrategyOutcome ==
    /\ [][OrderEnds => success_count' =
                         success_count + (IF OrderSucceeds THEN 1 ELSE 0)]_vars
    /\ [][success_count' # success_count =>
            OrderEnds \/ (pc = "execute" /\ success_count' = 0)]_vars
    /\ [](InPass => /\ success_count <= Len(Events("result"))
                    /\ Len(Events("result")) <= Len(Attempts)
                    /\ Len(Attempts) <= Len(Orders))
    /\ [](pc = "record" =>
            /\ ReturnedTrue \/ ReturnedFalse
            /\ ReturnedTrue <=> /\ Len(Events("result")) = Len(Orders)
                                /\ success_count = Len(Orders))
    /\ [][pc = "record" => RecordsOne(IF ReturnedTrue THEN "PASS" ELSE "FAIL")]_vars
    /\ [][pc = "execute" /\ ~result'.ok => RecordsOne("ERROR")]_vars
    /\ [][results' # results =>
            \/ pc = "record"
            \/ pc \in {"test", "load", "execute"} /\ RecordsOne("ERROR")]_vars
    /\ [][tests_to_run' # tests_to_run => results' # results]_vars

\* three tests have run: the order of the first succeeded, of the two orders
\* of the second one failed, and the third raised in execute_strategy
C26_Witness ==
    /\ tests_to_run = <<>>
    /\ DOMAIN results = {"single_order", "failing_order", "untitled"}
    /\ results["single_order"].status = "PASS"
    /\ results["failing_order"].status = "FAIL"
    /\ results["untitled"].status = "ERROR"

(***************************************************************************)
(* Loading a strategy file.                                                *)
(***************************************************************************)
\* the entries of the file of the running test that are objects with an
\* "orders" key, and their keys
TestEntries == Head(tests_to_run).file.entries

ValidEntries ==
    {i \in DOMAIN TestEntries :
        /\ TestEntries[i][2].dict
        /\ "orders" \in DOMAIN TestEntries[i][2].value}

ValidKeys == {TestEntries[i][1] : i \in ValidEntries}

\* the step of load_custom_strategies merged the file into the strategies
Merged ==
    /\ result'.ok
    /\ \A i \in ValidEntries :
          /\ TestEntries[i][1] \in DOMAIN configs'["strategies"]
          /\ configs'["strategies"][TestEntries[i][1]] = TestEntries[i][2].value
    /\ \A i \in DOMAIN TestEntries \ ValidEntries :
          TestEntries[i][1] \notin DOMAIN configs["strategies"]
              => TestEntries[i][1] \notin DOMAIN configs'["strategies"]
    /\ \A key \in DOMAIN configs["strategies"] \ ValidKeys :
          /\ key \in DOMAIN configs'["strategies"]
          /\ configs'["strategies"][key] = configs["strategies"][key]
    /\ DOMAIN configs'["strategies"] = DOMAIN configs["strategies"] \cup ValidKeys
    /\ \A section \in DOMAIN configs \ {"strategies"} :
          configs'[section] = configs[section]

\* C28: load_custom_strategies adds every entry of the strategy file that is
\* an object with an "orders" key, in place of any strategy of the same
\* name; entries without "orders" are not added; every other strategy stays
\* as it was; the bot's view of the strategies and the config manager's stay
\* the same; and when the file has no valid strategy the call fails and the
\* strategies are left as they were.
C28_LoadCustomStrategies ==
    /\ [][pc = "load" =>
            IF ValidEntries = {}
            THEN /\ ~result'.ok /\ result'.ret.kind = "ValueError"
                 /\ configs' = configs /\ bot_configs' = bot_configs
            ELSE Merged]_vars
    /\ [](bot_configs = configs)

\* the file with an entry without orders, a new default strategy and a
\* version string is loaded: the default strategy is the one of the file,
\* the other strategy is as it was and the entry without orders is not there
C28_Witness ==
    /\ pc = "execute" /\ TestName = "notes_first"
    /\ DOMAIN configs["strategies"] = {"basic_cycle", "position_flow"}
    /\ configs["strategies"]["basic_cycle"]["network"] = "mainnet"
    /\ configs["strategies"]["position_flow"] = TestConfig["strategies"]["position_flow"]
    /\ bot_configs = configs

====
